---------------------------- MODULE Spec2Model ----------------------------
(***************************************************************************)
(* Query understanding and response selection of the voice bot:            *)
(* IntentRecognizer (modules/intent_recognizer.py), ResponseGenerator and  *)
(* AdvancedResponseGenerator (modules/response_generator.py), the FAQ      *)
(* store (modules/database.py) and the request handlers that drive them    *)
(* (app.py, streamlit_app.py, main.py).                                    *)
(*                                                                         *)
(* Representation.  A user text is a sequence of one-character strings, so *)
(* that substring tests, lower-casing and the regular expressions are      *)
(* computed character by character.  Response texts are strings, built by  *)
(* concatenation as the code builds them.  Scores are counted in halves    *)
(* (1.0 is 2, the 0.5 bonus is 1) and a confidence in sixths, so that      *)
(* min(score / 3.0, 1.0) is min(halves, 6) / 6 with integers only.         *)
(***************************************************************************)
EXTENDS Integers, Sequences, FiniteSets, TLC

VARIABLES
  \* the text last handed to the recognizer, and what recognize_intent and
  \* extract_entities returned for it
  text, recognized, extracted,
  \* IntentRecognizer.context: a reference to a dict object, and the dict
  \* objects by reference (Python hands dicts around by reference)
  context, heap,
  \* the reference a caller got from get_context() or as analysis['context'],
  \* the value the dict had when it was handed out or when the caller last
  \* wrote to it, and the arguments of the last update since the last clear
  held, heldValue, lastUpdate,
  \* AdvancedResponseGenerator: self.database is set, self.use_ai_model,
  \* self.ai_client is set, self.conversation_history
  database, use_ai_model, ai_client, conversation_history,
  \* the rows of the faqs table
  faqs,
  \* the generate_response call in progress or last returned: its arguments,
  \* its position, what it returned, the stages it ran
  frame,
  \* the serving process: the request in progress of every conversation,
  \* the turn answered last, and the conversation that wrote each record of
  \* the history and the entries of the context
  turn, lastTurn, histOwner, ctxOwner,
  \* the faqs table in use: the get_faq_by_keywords call of every client
  \* (its position, what it read), the client holding the write lock of the
  \* database file, the match call made last, how often each record was
  \* returned, and how many calls started while another one was under way
  calls, wlock, matched, returnCount, overlaps,
  \* the application that handles the requests, and what its request
  \* handler did and returned for the request handled last
  app, result,
  \* AnalyticsTracker.in_memory_metrics, and what the tracker call made last
  \* did
  metrics, tracked,
  \* Config.RESPONSE_TEMPLATES and Config.INTENT_KEYWORDS as deployed, and
  \* how far the start of the application got
  catalog, keyword_config, startup,
  \* the Flask service under concurrent requests: the second of the wall
  \* clock, the files of data/uploads and data/audio by name, and every
  \* request in progress (its position, its locals, its reply)
  clock, files, requests,
  \* st.session_state.messages of the Streamlit page, and whether 'Clear
  \* Chat' was pressed since the last turn
  messages, cleared,
  \* the session of main.py: its kind, its position, conversation_active,
  \* what the input read last led to, and the response printed last
  session

intentVars == <<text, recognized, extracted>>

contextVars == <<context, heap, held, heldValue, lastUpdate>>

generatorVars == <<database, use_ai_model, ai_client, conversation_history, faqs, frame>>

serveVars == <<turn, lastTurn, histOwner, ctxOwner>>

storeVars == <<calls, wlock, matched, returnCount, overlaps>>

appVars == <<app, result>>

analyticsVars == <<metrics, tracked>>

configVars == <<catalog, keyword_config, startup>>

audioVars == <<clock, files, requests>>

chatVars == <<messages, cleared>>

sessionVars == <<session>>

hostVars == <<appVars, analyticsVars, configVars, audioVars, chatVars, sessionVars>>

vars == <<intentVars, contextVars, generatorVars, serveVars, storeVars, hostVars>>

-----------------------------------------------------------------------------
(* Characters *)

LowerLetters ==
  << "a", "b", "c", "d", "e", "f", "g", "h", "i", "j", "k", "l", "m",
     "n", "o", "p", "q", "r", "s", "t", "u", "v", "w", "x", "y", "z" >>

UpperLetters ==
  << "A", "B", "C", "D", "E", "F", "G", "H", "I", "J", "K", "L", "M",
     "N", "O", "P", "Q", "R", "S", "T", "U", "V", "W", "X", "Y", "Z" >>

Range(s) == { s[i] : i \in DOMAIN s }

Letters == Range(LowerLetters) \cup Range(UpperLetters)

Digits == { "0", "1", "2", "3", "4", "5", "6", "7", "8", "9" }

\* str.lower() on one character
LowerChar(c) ==
  IF c \in Range(UpperLetters)
    THEN LowerLetters[CHOOSE i \in DOMAIN UpperLetters : UpperLetters[i] = c]
    ELSE c

\* str.lower()
Lower(s) == [ i \in DOMAIN s |-> LowerChar(s[i]) ]

\* the character at 1-based index i, or "" beyond either edge of the string
CharAt(s, i) == IF i >= 1 /\ i <= Len(s) THEN s[i] ELSE ""

\* the regular expression class \w
IsWordChar(c) == c \in Letters \cup Digits \cup { "_" }

\* the assertion \b between s[p] and s[p+1], 0 <= p <= Len(s)
WordBoundary(s, p) == IsWordChar(CharAt(s, p)) # IsWordChar(CharAt(s, p + 1))

\* needle occurs in s at offset p (it covers s[p+1 .. p+Len(needle)])
OccursAt(s, needle, p) ==
  /\ p >= 0
  /\ p + Len(needle) <= Len(s)
  /\ \A j \in 1..Len(needle) : s[p + j] = needle[j]

\* Python's  needle in s
Contains(s, needle) == \E p \in 0..Len(s) : OccursAt(s, needle, p)

Max(S) == CHOOSE x \in S : \A y \in S : x >= y

Min2(a, b) == IF a <= b THEN a ELSE b

EmptyDict == [ k \in {} |-> TRUE ]

-----------------------------------------------------------------------------
(* config/settings.py *)

IntentOrder ==
  << "greeting", "product_info", "order_status", "account", "support", "farewell" >>

INTENT_KEYWORDS ==
  [ greeting |->
      << <<"h", "e", "l", "l", "o">>,
         <<"h", "i">>,
         <<"h", "e", "y">>,
         <<"g", "o", "o", "d", " ", "m", "o", "r", "n", "i", "n", "g">>,
         <<"g", "o", "o", "d", " ", "a", "f", "t", "e", "r", "n", "o", "o", "n">>,
         <<"g", "o", "o", "d", " ", "e", "v", "e", "n", "i", "n", "g">> >>,
    product_info |->
      << <<"p", "r", "o", "d", "u", "c", "t">>,
         <<"i", "t", "e", "m">>,
         <<"p", "r", "i", "c", "e">>,
         <<"c", "o", "s", "t">>,
         <<"a", "v", "a", "i", "l", "a", "b", "l", "e">>,
         <<"s", "t", "o", "c", "k">> >>,
    order_status |->
      << <<"o", "r", "d", "e", "r">>,
         <<"d", "e", "l", "i", "v", "e", "r", "y">>,
         <<"s", "h", "i", "p", "p", "i", "n", "g">>,
         <<"t", "r", "a", "c", "k">>,
         <<"s", "t", "a", "t", "u", "s">> >>,
    account |->
      << <<"a", "c", "c", "o", "u", "n", "t">>,
         <<"p", "r", "o", "f", "i", "l", "e">>,
         <<"l", "o", "g", "i", "n">>,
         <<"p", "a", "s", "s", "w", "o", "r", "d">>,
         <<"r", "e", "s", "e", "t">> >>,
    support |->
      << <<"h", "e", "l", "p">>,
         <<"s", "u", "p", "p", "o", "r", "t">>,
         <<"i", "s", "s", "u", "e">>,
         <<"p", "r", "o", "b", "l", "e", "m">>,
         <<"c", "o", "m", "p", "l", "a", "i", "n", "t">> >>,
    farewell |->
      << <<"b", "y", "e">>,
         <<"g", "o", "o", "d", "b", "y", "e">>,
         <<"t", "h", "a", "n", "k", "s">>,
         <<"t", "h", "a", "n", "k", " ", "y", "o", "u">>,
         <<"e", "x", "i", "t">>,
         <<"q", "u", "i", "t">> >> ]

RESPONSE_TEMPLATES ==
  [ greeting |->
      << "Hello! How can I assist you today?",
         "Hi there! What can I do for you?",
         "Welcome! I'm here to help you." >>,
    product_info |->
      << "I can help you with product information. Which product are you interested in?",
         "Sure! Let me get you the product details. Can you specify the product name?" >>,
    order_status |->
      << "I can check your order status. Could you provide your order number?",
         "Let me help you track your order. What's your order ID?" >>,
    account |->
      << "I can assist with account-related queries. What do you need help with?",
         "I'm here to help with your account. Please describe your issue." >>,
    support |->
      << "I'm sorry you're experiencing an issue. Can you describe the problem in detail?",
         "I'm here to help resolve your issue. What seems to be the problem?" >>,
    farewell |->
      << "Thank you for contacting us! Have a great day!",
         "Goodbye! Feel free to reach out if you need anything else.",
         "It was nice helping you. Take care!" >>,
    unknown |->
      << "I'm not sure I understand. Could you please rephrase that?",
         "I didn't quite catch that. Can you provide more details?",
         "I'm still learning. Could you ask that in a different way?" >> ]

-----------------------------------------------------------------------------
(* modules/intent_recognizer.py: IntentRecognizer.recognize_intent *)

\* score += 1.0, in halves
MatchScore == 2

\* score += 0.5, in halves
BonusScore == 1

\* min(score / 3.0, 1.0) in sixths: the cap 1.0
FullConfidence == 6

\* re.search(r'\b' + re.escape(keyword) + r'\b', text_lower)
re_search_word(keyword, text_lower) ==
  \E p \in 0..Len(text_lower) :
    /\ WordBoundary(text_lower, p)
    /\ OccursAt(text_lower, keyword, p)
    /\ WordBoundary(text_lower, p + Len(keyword))

\* the loop body for one keyword; a mutant that grants the bonus to every
\* substring match (the \b test dropped)
keyword_score_no_boundary(keyword, text_lower) ==
  IF Contains(text_lower, keyword) THEN MatchScore + BonusScore ELSE 0

\* the loop body for one keyword
keyword_score(keyword, text_lower) ==
  IF Contains(text_lower, keyword)
    THEN MatchScore + (IF re_search_word(keyword, text_lower) THEN BonusScore ELSE 0)
    ELSE 0

\* score of one intent: the loop over its keywords
RECURSIVE intent_score(_, _)
intent_score(keywords, text_lower) ==
  IF keywords = <<>>
    THEN 0
    ELSE keyword_score(Head(keywords), text_lower)
           + intent_score(Tail(keywords), text_lower)

\* a mutant of intent_scores that keeps the intents that scored 0
RECURSIVE intent_scores_unfiltered(_, _)
intent_scores_unfiltered(intents, text_lower) ==
  IF intents = <<>>
    THEN <<>>
    ELSE << <<Head(intents), intent_score(INTENT_KEYWORDS[Head(intents)], text_lower)>> >>
           \o intent_scores_unfiltered(Tail(intents), text_lower)

\* intent_scores.items(): the intents that scored above 0, in the order of
\* the configuration (a dict keeps insertion order)
RECURSIVE intent_scores(_, _)
intent_scores(intents, text_lower) ==
  IF intents = <<>>
    THEN <<>>
    ELSE LET score == intent_score(INTENT_KEYWORDS[Head(intents)], text_lower)
         IN  (IF score > 0 THEN << <<Head(intents), score>> >> ELSE <<>>)
               \o intent_scores(Tail(intents), text_lower)

\* a mutant of max_from that keeps the last item with the greatest key
RECURSIVE max_from_last(_, _)
max_from_last(best, rest) ==
  IF rest = <<>>
    THEN best
    ELSE max_from_last(IF Head(rest)[2] >= best[2] THEN Head(rest) ELSE best, Tail(rest))

\* max(items, key=lambda x: x[1]): the first item with the greatest key
RECURSIVE max_from(_, _)
max_from(best, rest) ==
  IF rest = <<>>
    THEN best
    ELSE max_from(IF Head(rest)[2] > best[2] THEN Head(rest) ELSE best, Tail(rest))

max_by_score(items) == max_from(Head(items), Tail(items))

\* recognize_intent(text) -> (intent_name, confidence)
recognize_intent(t) ==
  IF t = <<>>
    THEN << "unknown", 0 >>
    ELSE LET text_lower == Lower(t)
             items == intent_scores(IntentOrder, text_lower)
         IN  IF items # <<>>
               THEN LET best_intent == max_by_score(items)
                    IN  << best_intent[1], Min2(best_intent[2], FullConfidence) >>
               ELSE << "unknown", 0 >>

-----------------------------------------------------------------------------
(* modules/intent_recognizer.py: IntentRecognizer.extract_entities *)

AllIn(s, from, to, class) == \A i \in from..to : s[i] \in class

\* the greatest triple of S in lexicographic order: what a backtracking
\* matcher with three greedy quantifiers settles on
LexMax(S) ==
  CHOOSE x \in S : \A y \in S :
    \/ x[1] > y[1]
    \/ x[1] = y[1] /\ x[2] > y[2]
    \/ x[1] = y[1] /\ x[2] = y[2] /\ x[3] >= y[3]

\* r'\b\d+\b' tried at offset p: the end of the match, or -1
numbers_match(s, p) ==
  LET ends == { e \in (p + 1)..Len(s) :
                  AllIn(s, p + 1, e, Digits) /\ WordBoundary(s, e) }
  IN  IF WordBoundary(s, p) /\ ends # {} THEN Max(ends) ELSE -1

\* r'\d+' tried at offset p: a mutant of numbers_match without the \b
\* assertions
numbers_match_unbounded(s, p) ==
  LET ends == { e \in (p + 1)..Len(s) : AllIn(s, p + 1, e, Digits) }
  IN  IF ends # {} THEN Max(ends) ELSE -1

LocalChars == Letters \cup Digits \cup { ".", "_", "%", "+", "-" }

DomainChars == Letters \cup Digits \cup { ".", "-" }

TldChars == Letters \cup { "|" }

\* r'\b[A-Za-z0-9._%+-]+@[A-Za-z0-9.-]+\.[A-Z|a-z]{2,}\b' tried at offset p
emails_match(s, p) ==
  LET n == Len(s)
      locals == { a \in (p + 1)..n :
                    AllIn(s, p + 1, a, LocalChars) /\ CharAt(s, a + 1) = "@" }
      domains(a) == { d \in (a + 2)..n :
                        AllIn(s, a + 2, d, DomainChars) /\ CharAt(s, d + 1) = "." }
      tlds(d) == { e \in (d + 3)..n :
                     AllIn(s, d + 2, e, TldChars) /\ WordBoundary(s, e) }
      splits == UNION { UNION { { <<a, d, e>> : e \in tlds(d) } : d \in domains(a) }
                        : a \in locals }
  IN  IF WordBoundary(s, p) /\ splits # {} THEN LexMax(splits)[3] ELSE -1

DateSeparators == { "/", "-" }

\* r'\b\d{1,2}[/-]\d{1,2}[/-]\d{2,4}\b' tried at offset p
dates_match(s, p) ==
  LET lens == { x \in (1..2) \X (1..2) \X (2..4) :
                  LET a == p + x[1]
                      b == a + 1 + x[2]
                      c == b + 1 + x[3]
                  IN  /\ c <= Len(s)
                      /\ AllIn(s, p + 1, a, Digits)
                      /\ s[a + 1] \in DateSeparators
                      /\ AllIn(s, a + 2, b, Digits)
                      /\ s[b + 1] \in DateSeparators
                      /\ AllIn(s, b + 2, c, Digits)
                      /\ WordBoundary(s, c) }
  IN  IF WordBoundary(s, p) /\ lens # {}
        THEN LET x == LexMax(lens) IN p + x[1] + 1 + x[2] + 1 + x[3]
        ELSE -1

pattern_match(category, s, p) ==
  CASE category = "numbers" -> numbers_match(s, p)
    [] category = "emails"  -> emails_match(s, p)
    [] category = "dates"   -> dates_match(s, p)

\* re.findall(pattern, s) from offset p on: the matches left to right, the
\* scan resuming where a match ended
RECURSIVE findall_from(_, _, _)
findall_from(category, s, p) ==
  IF p >= Len(s)
    THEN <<>>
    ELSE LET e == pattern_match(category, s, p)
         IN  IF e > p
               THEN << SubSeq(s, p + 1, e) >> \o findall_from(category, s, e)
               ELSE findall_from(category, s, p + 1)

findall(category, s) == findall_from(category, s, 0)

\* the dict built at lines 65-82; 'products' is never assigned a match
all_entities(t) ==
  [ numbers  |-> findall("numbers", t),
    emails   |-> findall("emails", t),
    dates    |-> findall("dates", t),
    products |-> <<>> ]

\* a mutant of drop_empty that keeps every category
drop_empty_keeps_all(entities) == entities

\* {k: v for k, v in entities.items() if v}
drop_empty(entities) ==
  [ k \in { c \in DOMAIN entities : entities[c] # <<>> } |-> entities[k] ]

\* extract_entities(text) -> dict of category -> list of matches
extract_entities(t) == drop_empty(all_entities(t))

-----------------------------------------------------------------------------
(* Python values *)

\* None where a dict may be passed
None == [ none |-> TRUE ]

\* None where a text may be passed
NoQuery == << "<None>" >>

\* the truth value of an optional dict
IsTruthyDict(d) == d # None /\ DOMAIN d # {}

\* the truth value of an optional text
IsTruthyText(q) == q # NoQuery /\ q # <<>>

\* the string of a text
RECURSIVE Join(_)
Join(chars) == IF chars = <<>> THEN "" ELSE Head(chars) \o Join(Tail(chars))

Whitespace == { " " }

\* str.split(): the maximal runs of characters that are not whitespace
RECURSIVE Split(_)
Split(s) ==
  IF s = <<>>
    THEN <<>>
    ELSE IF Head(s) \in Whitespace
      THEN Split(Tail(s))
      ELSE LET n == Max({ k \in 1..Len(s) : \A i \in 1..k : s[i] \notin Whitespace })
           IN  << SubSeq(s, 1, n) >> \o Split(SubSeq(s, n + 1, Len(s)))

RECURSIVE StripLeft(_)
StripLeft(s) == IF s # <<>> /\ Head(s) \in Whitespace THEN StripLeft(Tail(s)) ELSE s

RECURSIVE StripRight(_)
StripRight(s) ==
  IF s # <<>> /\ s[Len(s)] \in Whitespace
    THEN StripRight(SubSeq(s, 1, Len(s) - 1))
    ELSE s

\* str.strip()
Strip(s) == StripRight(StripLeft(s))

-----------------------------------------------------------------------------
(* modules/database.py: the faqs table *)

\* the rows _insert_default_faqs puts into an empty table
default_faqs ==
  <<
     [ id |-> 1,
       question |-> "What are your business hours?",
       answer |-> "We are available 24/7 to assist you with your queries.",
       category |-> "general",
       keywords |-> << <<"h", "o", "u", "r", "s">>,
                       <<"b", "u", "s", "i", "n", "e", "s", "s">>,
                       <<"a", "v", "a", "i", "l", "a", "b", "l", "e">>,
                       <<"o", "p", "e", "n">> >>,
       usage_count |-> 0 ],
     [ id |-> 2,
       question |-> "How can I track my order?",
       answer |-> "You can track your order by providing your order number. We will fetch the latest status for you.",
       category |-> "orders",
       keywords |-> << <<"t", "r", "a", "c", "k">>,
                       <<"o", "r", "d", "e", "r">>,
                       <<"s", "t", "a", "t", "u", "s">>,
                       <<"s", "h", "i", "p", "p", "i", "n", "g">> >>,
       usage_count |-> 0 ],
     [ id |-> 3,
       question |-> "What is your return policy?",
       answer |-> "We offer a 30-day return policy on most items. Please contact customer service with your order details.",
       category |-> "returns",
       keywords |-> << <<"r", "e", "t", "u", "r", "n">>,
                       <<"r", "e", "f", "u", "n", "d">>,
                       <<"p", "o", "l", "i", "c", "y">>,
                       <<"e", "x", "c", "h", "a", "n", "g", "e">> >>,
       usage_count |-> 0 ],
     [ id |-> 4,
       question |-> "How do I reset my password?",
       answer |-> "You can reset your password by clicking the \"Forgot Password\" link on the login page or contact support.",
       category |-> "account",
       keywords |-> << <<"p", "a", "s", "s", "w", "o", "r", "d">>,
                       <<"r", "e", "s", "e", "t">>,
                       <<"a", "c", "c", "o", "u", "n", "t">>,
                       <<"l", "o", "g", "i", "n">> >>,
       usage_count |-> 0 ],
     [ id |-> 5,
       question |-> "What payment methods do you accept?",
       answer |-> "We accept credit cards, debit cards, PayPal, and other digital payment methods.",
       category |-> "payment",
       keywords |-> << <<"p", "a", "y", "m", "e", "n", "t">>,
                       <<"c", "r", "e", "d", "i", "t">>,
                       <<"c", "a", "r", "d">>,
                       <<"p", "a", "y", "p", "a", "l">>,
                       <<"p", "a", "y">> >>,
       usage_count |-> 0 ] >>

\* sum(1 for kw in keywords if any(faq_kw in kw.lower() for faq_kw in faq_keywords))
RECURSIVE faq_score(_, _)
faq_score(keywords, faq_keywords) ==
  IF keywords = <<>>
    THEN 0
    ELSE (IF \E i \in DOMAIN faq_keywords : Contains(Lower(Head(keywords)), faq_keywords[i])
            THEN 1 ELSE 0)
           + faq_score(Tail(keywords), faq_keywords)

\* a mutant of best_row in which a later row replaces the best on an equal
\* score
RECURSIVE best_row_last_wins(_, _, _, _, _)
best_row_last_wins(rows, keywords, i, best_match, best_score) ==
  IF i > Len(rows)
    THEN best_match
    ELSE LET score == faq_score(keywords, rows[i].keywords)
         IN  IF score >= best_score /\ score > 0
               THEN best_row_last_wins(rows, keywords, i + 1, i, score)
               ELSE best_row_last_wins(rows, keywords, i + 1, best_match, best_score)

\* the loop over the rows from row i on: the index of best_match, 0 for None
RECURSIVE best_row(_, _, _, _, _)
best_row(rows, keywords, i, best_match, best_score) ==
  IF i > Len(rows)
    THEN best_match
    ELSE LET score == faq_score(keywords, rows[i].keywords)
         IN  IF score > best_score
               THEN best_row(rows, keywords, i + 1, i, score)
               ELSE best_row(rows, keywords, i + 1, best_match, best_score)

\* a mutant of increment_usage that writes back the count the SELECT read,
\* plus one
increment_usage_from_read(rows, id, seen) ==
  [ i \in DOMAIN rows |->
      IF rows[i].id = id
        THEN [ rows[i] EXCEPT !.usage_count = seen + 1 ]
        ELSE rows[i] ]

\* UPDATE faqs SET usage_count = usage_count + 1 WHERE id = ?: the count
\* is read and written by the one statement; seen is the count the SELECT
\* of the call had read
increment_usage(rows, id, seen) ==
  [ i \in DOMAIN rows |->
      IF rows[i].id = id
        THEN [ rows[i] EXCEPT !.usage_count = @ + 1 ]
        ELSE rows[i] ]

\* the record get_faq_by_keywords returns for row b
best_match_of(rows, b) ==
  [ id |-> rows[b].id,
    question |-> rows[b].question,
    answer |-> rows[b].answer,
    category |-> rows[b].category,
    usage_count |-> rows[b].usage_count ]

\* a mutant of get_faq_by_keywords that counts a call without a match for
\* the first row
get_faq_by_keywords_counts_misses(rows, keywords) ==
  LET b == best_row(rows, keywords, 1, 0, 0)
  IN  IF b = 0
        THEN [ match |-> <<>>,
               rows |-> increment_usage(rows, rows[1].id, rows[1].usage_count) ]
        ELSE [ match |-> << best_match_of(rows, b) >>,
               rows |-> increment_usage(rows, rows[b].id, rows[b].usage_count) ]

\* get_faq_by_keywords(keywords): the match (none: the empty sequence) and
\* the rows after the UPDATE of usage_count
get_faq_by_keywords(rows, keywords) ==
  LET b == best_row(rows, keywords, 1, 0, 0)
  IN  IF b = 0
        THEN [ match |-> <<>>, rows |-> rows ]
        ELSE [ match |-> << best_match_of(rows, b) >>,
               rows |-> increment_usage(rows, rows[b].id, rows[b].usage_count) ]

\* add_faq(question, answer, category, keywords): the INSERT, with the
\* AUTOINCREMENT id and the default usage_count
add_faq(rows, question, answer, category, keywords) ==
  Append(rows, [ id |-> Max({ 0 } \cup { rows[i].id : i \in DOMAIN rows }) + 1,
                 question |-> question,
                 answer |-> answer,
                 category |-> category,
                 keywords |-> keywords,
                 usage_count |-> 0 ])

-----------------------------------------------------------------------------
(* modules/response_generator.py: ResponseGenerator *)

\* self.response_templates
response_templates == RESPONSE_TEMPLATES

\* a mutant of templates_for that answers an intent absent from the catalog
\* with the first list of the catalog
templates_for_first_list(intent) ==
  IF intent \in DOMAIN response_templates
    THEN response_templates[intent]
    ELSE response_templates["greeting"]

\* self.response_templates.get(intent, self.response_templates['unknown'])
templates_for(intent) ==
  IF intent \in DOMAIN response_templates
    THEN response_templates[intent]
    ELSE response_templates["unknown"]

\* a mutant of enhance_with_entities that names the last value of a category
enhance_with_entities_last_value(response, entities) ==
  LET with_number ==
        IF "numbers" \in DOMAIN entities /\ entities.numbers # <<>>
          THEN response \o " I see you mentioned order number "
                 \o Join(entities.numbers[Len(entities.numbers)]) \o "."
          ELSE response
  IN  IF "emails" \in DOMAIN entities /\ entities.emails # <<>>
        THEN with_number \o " I'll send updates to "
               \o Join(entities.emails[Len(entities.emails)]) \o "."
        ELSE with_number

\* _enhance_with_entities(response, entities)
enhance_with_entities(response, entities) ==
  LET with_number ==
        IF "numbers" \in DOMAIN entities /\ entities.numbers # <<>>
          THEN response \o " I see you mentioned order number "
                 \o Join(entities.numbers[1]) \o "."
          ELSE response
  IN  IF "emails" \in DOMAIN entities /\ entities.emails # <<>>
        THEN with_number \o " I'll send updates to " \o Join(entities.emails[1]) \o "."
        ELSE with_number

\* a mutant of add_context_awareness that adds the clause after any earlier
\* intent
add_context_awareness_any_intent(response, ctx, history) ==
  IF /\ "last_intent" \in DOMAIN ctx
     /\ ctx.last_intent # ""
     /\ Len(history) > 0
    THEN response \o " Is there anything specific about the product you'd like to know?"
    ELSE response

\* _add_context_awareness(response, context), reading the history
add_context_awareness(response, ctx, history) ==
  IF /\ "last_intent" \in DOMAIN ctx
     /\ ctx.last_intent # ""
     /\ Len(history) > 0
     /\ ctx.last_intent = "product_info"
    THEN response \o " Is there anything specific about the product you'd like to know?"
    ELSE response

\* lines 49-55: the response made of the chosen template
template_response(base_response, intent, entities, ctx, history) ==
  LET enhanced ==
        IF IsTruthyDict(entities) /\ intent \in { "order_status", "product_info" }
          THEN enhance_with_entities(base_response, entities)
          ELSE base_response
  IN  IF IsTruthyDict(ctx)
        THEN add_context_awareness(enhanced, ctx, history)
        ELSE enhanced

\* ResponseGenerator.generate_response(intent, entities, context) with
\* random.choice picking templates[choice]: a KeyError without the 'unknown'
\* entry (the default of .get is evaluated on every call), an IndexError on
\* an empty list
base_generate_response(history, intent, entities, ctx, choice) ==
  IF "unknown" \notin DOMAIN response_templates \/ templates_for(intent) = <<>>
    THEN [ raised |-> TRUE, ret |-> "", history |-> history ]
    ELSE LET response ==
               template_response(templates_for(intent)[choice], intent, entities, ctx, history)
         IN  [ raised |-> FALSE,
               ret |-> response,
               history |-> Append(history, [ intent |-> intent, response |-> response ]) ]

-----------------------------------------------------------------------------
(* modules/response_generator.py: AdvancedResponseGenerator *)

\* a mutant of check_faq without the try/except around the lookup
check_faq_unguarded(has_database, rows, user_query, db_fails) ==
  IF ~has_database
    THEN [ raised |-> FALSE, found |-> FALSE, answer |-> "", rows |-> rows, match |-> <<>> ]
    ELSE IF db_fails
      THEN [ raised |-> TRUE, found |-> FALSE, answer |-> "", rows |-> rows, match |-> <<>> ]
      ELSE LET r == get_faq_by_keywords(rows, Split(Lower(user_query)))
           IN  IF r.match # <<>>
                 THEN [ raised |-> FALSE, found |-> TRUE, answer |-> r.match[1].answer,
                        rows |-> r.rows, match |-> r.match ]
                 ELSE [ raised |-> FALSE, found |-> FALSE, answer |-> "",
                        rows |-> r.rows, match |-> <<>> ]

\* _check_faq(user_query): found is FALSE for a None result; db_fails when
\* the lookup raises, which the except clause turns into None
check_faq(has_database, rows, user_query, db_fails) ==
  IF ~has_database
    THEN [ raised |-> FALSE, found |-> FALSE, answer |-> "", rows |-> rows, match |-> <<>> ]
    ELSE IF db_fails
      THEN [ raised |-> FALSE, found |-> FALSE, answer |-> "", rows |-> rows, match |-> <<>> ]
      ELSE LET r == get_faq_by_keywords(rows, Split(Lower(user_query)))
           IN  IF r.match # <<>>
                 THEN [ raised |-> FALSE, found |-> TRUE, answer |-> r.match[1].answer,
                        rows |-> r.rows, match |-> r.match ]
                 ELSE [ raised |-> FALSE, found |-> FALSE, answer |-> "",
                        rows |-> r.rows, match |-> <<>> ]

\* what the completion service does with a request: it raises, it answers
\* without content, or it answers with a text
AiOutcomes ==
  { [ kind |-> "raise" ],
    [ kind |-> "no_content" ],
    [ kind |-> "content", content |-> <<" ", "O", "k", ".", " ">> ] }

\* a mutant of generate_response_ai that records a failed completion in
\* the history before it falls back
generate_response_ai_records_failure(has_client, history, intent, ai) ==
  IF has_client /\ ai.kind = "content"
    THEN LET ai_response == Join(Strip(ai.content))
         IN  [ fallback |-> FALSE,
               ret |-> ai_response,
               history |-> Append(history, [ intent |-> intent,
                                             response |-> ai_response,
                                             method |-> "ai" ]) ]
    ELSE [ fallback |-> TRUE, ret |-> "",
           history |-> Append(history, [ intent |-> intent, response |-> "",
                                         method |-> "ai" ]) ]

\* generate_response_ai(intent, user_query, entities, context) up to the
\* fall-back: with a content the stripped text is recorded and returned;
\* without a client, or when the call or .strip() raises, the caller falls
\* back to the template stage
generate_response_ai(has_client, history, intent, ai) ==
  IF has_client /\ ai.kind = "content"
    THEN LET ai_response == Join(Strip(ai.content))
         IN  [ fallback |-> FALSE,
               ret |-> ai_response,
               history |-> Append(history, [ intent |-> intent,
                                             response |-> ai_response,
                                             method |-> "ai" ]) ]
    ELSE [ fallback |-> TRUE, ret |-> "", history |-> history ]

\* a mutant of after_kb in which a failed lookup skips the generative stage
after_kb_failure_skips_ai(use_ai, has_client, user_query, kb_failed) ==
  IF use_ai /\ has_client /\ IsTruthyText(user_query) /\ ~kb_failed
    THEN "ai"
    ELSE "template"

\* line 214: the stage after the knowledge base gave no answer
after_kb(use_ai, has_client, user_query, kb_failed) ==
  IF use_ai /\ has_client /\ IsTruthyText(user_query) THEN "ai" ELSE "template"

\* a mutant of first_stage that asks the generative service before the
\* knowledge base
first_stage_ai_first(has_database, use_ai, has_client, user_query) ==
  IF use_ai /\ has_client /\ IsTruthyText(user_query)
    THEN "ai"
    ELSE IF has_database /\ IsTruthyText(user_query) THEN "kb" ELSE "template"

\* a mutant of first_stage that looks up the knowledge base whether or not
\* a query was passed
first_stage_without_query(has_database, use_ai, has_client, user_query) ==
  IF has_database
    THEN "kb"
    ELSE after_kb(use_ai, has_client, user_query, FALSE)

\* line 208: the first stage of generate_response
first_stage(has_database, use_ai, has_client, user_query) ==
  IF has_database /\ IsTruthyText(user_query)
    THEN "kb"
    ELSE after_kb(use_ai, has_client, user_query, FALSE)

-----------------------------------------------------------------------------
(* Inputs: the texts handed to the recognizer and the extractor *)

\* pieces a text is put together from: keywords of several intents (one in
\* upper case, two of them nested: 'bye' in 'goodbye'), separators that are
\* word characters ("_", a letter, digits) and that are not (" ", "?"), an
\* e-mail address and a date
Fragments ==
  { <<"h", "i">>, <<"H", "e", "y">>, <<"g", "o", "o", "d", "b", "y", "e">>,
    <<"t", "h", "a", "n", "k", "s">>, <<"i", "t", "e", "m">>,
    <<"o", "r", "d", "e", "r">>, <<" ">>, <<"_">>, <<"t">>, <<"?">>,
    <<"1">>, <<"2", "3">>, <<"a", "@", "b", ".", "c", "o">>,
    <<"1", "/", "2", "/", "3", "4">> }

\* the greatest number of fragments in a text
MaxFrags == 3

RECURSIVE TextsUpTo(_)
TextsUpTo(n) ==
  IF n = 0
    THEN { <<>> }
    ELSE LET shorter == TextsUpTo(n - 1)
         IN  shorter \cup { t \o f : t \in shorter, f \in Fragments }

Texts == TextsUpTo(MaxFrags)

-----------------------------------------------------------------------------
(* The recognizer and the extractor applied to one text *)

NoResult == <<>>

\* no frame of generate_response
NoFrame == [ pc |-> "idle" ]

\* no response generator is part of the run
NoGenerator ==
  /\ database = FALSE
  /\ use_ai_model = FALSE
  /\ ai_client = FALSE
  /\ conversation_history = <<>>
  /\ faqs = <<>>
  /\ frame = NoFrame

\* the conversations of the serving process
Conversations == { "A", "B" }

\* no request is in progress, none was answered
NoServe ==
  /\ turn = [ c \in Conversations |-> [ pc |-> "idle" ] ]
  /\ lastTurn = [ pc |-> "none" ]
  /\ histOwner = <<>>
  /\ ctxOwner = "none"

\* a bound on the clients of the database file
NumClients == 2

\* the clients of the database file
Clients == 1..NumClients

\* no client has called the matcher
NoStore ==
  /\ calls = [ p \in Clients |-> [ pc |-> "idle" ] ]
  /\ wlock = 0
  /\ matched = [ pc |-> "none" ]
  /\ returnCount = [ id \in {} |-> 0 ]
  /\ overlaps = 0

\* no session of main.py was started
NoSession == session = [ pc |-> "none" ]

\* st.session_state.messages = []
NoChat ==
  /\ messages = << >>
  /\ cleared = FALSE

\* no request is in progress and no file was written
NoAudio ==
  /\ clock = 0
  /\ files = << >>
  /\ requests = << >>

\* no application handles requests, nothing is tracked, the configuration is
\* the one of settings.py
NoHost ==
  /\ NoAudio
  /\ NoChat
  /\ NoSession
  /\ app = "none"
  /\ result = [ pc |-> "none" ]
  /\ metrics = [ queries |-> <<>>, errors |-> <<>> ]
  /\ tracked = [ pc |-> "none" ]
  /\ catalog = RESPONSE_TEMPLATES
  /\ keyword_config = INTENT_KEYWORDS
  /\ startup = "none"

\* the recognizer as constructed: self.context = {}
InitContext ==
  /\ context = 1
  /\ heap = [ r \in { 1 } |-> EmptyDict ]
  /\ held = 0
  /\ heldValue = EmptyDict
  /\ lastUpdate = <<>>

InitIntent ==
  /\ text \in Texts
  /\ recognized = NoResult
  /\ extracted = NoResult
  /\ InitContext
  /\ NoGenerator
  /\ NoServe
  /\ NoStore
  /\ NoHost

\* a caller runs recognize_intent(text)
RecognizeIntent ==
  /\ recognized = NoResult
  /\ recognized' = recognize_intent(text)
  /\ UNCHANGED <<text, extracted, contextVars, generatorVars, serveVars, storeVars, hostVars>>

\* a caller runs extract_entities(text)
ExtractEntities ==
  /\ extracted = NoResult
  /\ extracted' = << extract_entities(text) >>
  /\ UNCHANGED <<text, recognized, contextVars, generatorVars, serveVars, storeVars, hostVars>>

NextIntent == RecognizeIntent \/ ExtractEntities

SpecIntent == InitIntent /\ [][NextIntent]_vars

-----------------------------------------------------------------------------
(* Claims about recognize_intent *)

ConfiguredIntents == DOMAIN INTENT_KEYWORDS

\* some configured keyword is a substring of s
SomeKeywordIn(s) ==
  \E intent \in ConfiguredIntents :
    \E k \in DOMAIN INTENT_KEYWORDS[intent] :
      \E p \in 0..(Len(s) - Len(INTENT_KEYWORDS[intent][k])) :
        SubSeq(s, p + 1, p + Len(INTENT_KEYWORDS[intent][k])) = INTENT_KEYWORDS[intent][k]

\* C8: recognize_intent returns ('unknown', 0.0) exactly when no configured
\* keyword is a substring of the lower-cased text (the empty text included);
\* otherwise it returns a configured intent with 0 < confidence <= 1; so the
\* confidence is 0.0 if and only if the intent is 'unknown'.
C8_UnknownIffNoKeyword ==
  recognized # NoResult =>
    LET intent == recognized[1]
        confidence == recognized[2]
        any == SomeKeywordIn(Lower(text))
    IN  /\ (recognized = << "unknown", 0 >>) <=> ~any
        /\ any => /\ intent \in ConfiguredIntents
                  /\ confidence > 0
                  /\ confidence <= 6
        /\ (confidence = 0) <=> (intent = "unknown")

\* a non-empty text without any keyword has been classified
C8_Witness ==
  /\ text # <<>>
  /\ ~SomeKeywordIn(Lower(text))
  /\ recognized = << "unknown", 0 >>

\* the keyword occurs in s at some offset
KeywordOccurs(keyword, s) ==
  \E p \in 0..(Len(s) - Len(keyword)) : SubSeq(s, p + 1, p + Len(keyword)) = keyword

\* the keyword occurs in s as a whole word: some occurrence has, on each
\* side, a string edge or a character that is no letter, digit or underscore
KeywordIsWord(keyword, s) ==
  \E p \in 0..(Len(s) - Len(keyword)) :
    /\ SubSeq(s, p + 1, p + Len(keyword)) = keyword
    /\ p = 0 \/ ~IsWordChar(s[p])
    /\ p + Len(keyword) = Len(s) \/ ~IsWordChar(s[p + Len(keyword) + 1])

\* the score the claim gives an intent, in halves
ClaimedScore(intent, s) ==
  LET keywords == INTENT_KEYWORDS[intent]
  IN  2 * Cardinality({ k \in DOMAIN keywords : KeywordOccurs(keywords[k], s) })
        + Cardinality({ k \in DOMAIN keywords : KeywordIsWord(keywords[k], s) })

-----------------------------------------------------------------------------
(* modules/intent_recognizer.py: the conversation context *)

\* d[key] = value on a dict
SetItem(d, key, value) ==
  [ k \in DOMAIN d \cup { key } |-> IF k = key THEN value ELSE d[k] ]

\* a mutant of update_context that keeps the intent of the first turn once
\* it is set
update_context_keep_intent(d, intent, entities) ==
  SetItem(IF "last_intent" \in DOMAIN d THEN d ELSE SetItem(d, "last_intent", intent),
          "last_entities", entities)

\* update_context(intent, entities) on the dict self.context refers to
update_context(d, intent, entities) ==
  SetItem(SetItem(d, "last_intent", intent), "last_entities", entities)

\* a reference no live object uses
NewRef(live) == CHOOSE r \in 1..(Cardinality(live) + 1) : r \notin live

\* the heap without the objects nothing refers to any more
Collect(h, live) == [ r \in live |-> h[r] ]

\* the texts of the turns of a conversation
TurnTexts ==
  { <<"h", "i">>,
    <<"i", "t", "e", "m", " ", "2", "3">>,
    <<"t", "r", "a", "c", "k", " ", "o", "r", "d", "e", "r">>,
    <<"t", "?">> }

\* intents a caller passes to update_context
ArgIntents == { "greeting", "product_info", "unknown" }

\* entities a caller passes to update_context
ArgEntities == { EmptyDict, [ numbers |-> << <<"2", "3">> >> ] }

\* recognize_intent and extract_entities of every turn text, computed once
TurnAnalysis ==
  [ t \in TurnTexts |->
      [ recognized |-> recognize_intent(t), entities |-> extract_entities(t) ] ]

\* analyze_query(text): recognize, extract, update the context; the result
\* carries self.context itself, not a copy
AnalyzeQuery(t) ==
  LET intent == TurnAnalysis[t].recognized[1]
      entities == TurnAnalysis[t].entities
  IN  /\ text' = t
      /\ recognized' = TurnAnalysis[t].recognized
      /\ extracted' = << entities >>
      /\ heap' = Collect([ heap EXCEPT ![context] = update_context(@, intent, entities) ],
                         { context })
      /\ held' = context
      /\ heldValue' = heap'[context]
      /\ lastUpdate' = << intent, entities >>
      /\ UNCHANGED <<context, generatorVars, serveVars, storeVars, hostVars>>

\* update_context(intent, entities)
UpdateContext(intent, entities) ==
  /\ heap' = [ heap EXCEPT ![context] = update_context(@, intent, entities) ]
  /\ lastUpdate' = << intent, entities >>
  /\ UNCHANGED <<intentVars, context, held, heldValue, generatorVars, serveVars, storeVars, hostVars>>

\* get_context(): return self.context
GetContext ==
  /\ held' = context
  /\ heldValue' = heap[context]
  /\ heap' = Collect(heap, { context })
  /\ UNCHANGED <<intentVars, context, lastUpdate, generatorVars, serveVars, storeVars, hostVars>>

\* clear_context(): self.context = {}, a new dict object
ClearContext ==
  LET live == { context } \cup (IF held = 0 THEN {} ELSE { held })
      fresh == NewRef(live)
  IN  /\ context' = fresh
      /\ heap' = Collect([ r \in (DOMAIN heap) \cup { fresh } |->
                             IF r = fresh THEN EmptyDict ELSE heap[r] ],
                         { fresh } \cup (IF held = 0 THEN {} ELSE { held }))
      /\ lastUpdate' = <<>>
      /\ UNCHANGED <<intentVars, held, heldValue, generatorVars, serveVars, storeVars, hostVars>>

\* recognize_intent(text) called on its own
CallRecognizeIntent(t) ==
  /\ text' = t
  /\ recognized' = TurnAnalysis[t].recognized
  /\ extracted' = NoResult
  /\ UNCHANGED <<contextVars, generatorVars, serveVars, storeVars, hostVars>>

\* extract_entities(text) called on its own
CallExtractEntities(t) ==
  /\ text' = t
  /\ recognized' = NoResult
  /\ extracted' = << TurnAnalysis[t].entities >>
  /\ UNCHANGED <<contextVars, generatorVars, serveVars, storeVars, hostVars>>

\* the caller writes to the dict it was handed: ctx['last_intent'] = intent
CallerSetsItem(intent) ==
  /\ held # 0
  /\ heap' = [ heap EXCEPT ![held] = SetItem(@, "last_intent", intent) ]
  /\ heldValue' = heap'[held]
  /\ UNCHANGED <<intentVars, context, held, lastUpdate, generatorVars, serveVars, storeVars, hostVars>>

InitRecognizer ==
  /\ text = <<>>
  /\ recognized = NoResult
  /\ extracted = NoResult
  /\ InitContext
  /\ NoGenerator
  /\ NoServe
  /\ NoStore
  /\ NoHost

\* the calls of one caller on one recognizer
NextContext ==
  \/ \E t \in TurnTexts : AnalyzeQuery(t)
  \/ \E intent \in ArgIntents, entities \in ArgEntities : UpdateContext(intent, entities)
  \/ GetContext
  \/ ClearContext
  \/ \E t \in TurnTexts : CallRecognizeIntent(t)
  \/ \E t \in TurnTexts : CallExtractEntities(t)

SpecContext == InitRecognizer /\ [][NextContext]_vars

\* the same calls, and a caller that writes to the context it was handed
NextAlias ==
  \/ \E t \in TurnTexts : AnalyzeQuery(t)
  \/ \E intent \in ArgIntents, entities \in ArgEntities : UpdateContext(intent, entities)
  \/ GetContext
  \/ ClearContext
  \/ \E intent \in ArgIntents : CallerSetsItem(intent)

SpecAlias == InitRecognizer /\ [][NextAlias]_vars

\* what the context holds according to the calls made so far
ExpectedContext ==
  IF lastUpdate = <<>>
    THEN EmptyDict
    ELSE [ last_intent |-> lastUpdate[1], last_entities |-> lastUpdate[2] ]

\* C5: after any sequence of analyze_query, update_context, clear_context,
\* recognize_intent and extract_entities calls the context is empty if no
\* analyze_query/update_context happened since creation or the last
\* clear_context, and otherwise holds exactly the intent and the entities of
\* the most recent one; recognize_intent and extract_entities leave it alone.
C5_ContextIsLastUpdate == heap[context] = ExpectedContext

\* a second update has overwritten a first one that had other entities
C5_Witness ==
  /\ lastUpdate = << "product_info", EmptyDict >>
  /\ heap[context] = [ last_intent |-> "product_info", last_entities |-> EmptyDict ]
  /\ held # 0
  /\ heldValue = [ last_intent |-> "greeting",
                   last_entities |-> [ numbers |-> << <<"2", "3">> >> ] ]

\* C6: a context handed out by get_context or in an analyze_query result is
\* a snapshot: a later analyze_query/update_context does not change the value
\* the caller holds, and a caller changing that value does not change the
\* recognizer's own context.
C6_ContextIsSnapshot ==
  /\ held # 0 => heap[held] = heldValue
  /\ heap[context] = ExpectedContext

-----------------------------------------------------------------------------
(* The response selector: one generate_response call at a time *)

\* a bound on the records of the history at the start of a call
MaxHistory == 2

\* a bound on the usage_count of a row at the start of a call
MaxUsage == 2

\* a bound on the rows of the faqs table
MaxFaqs == 6

\* the arguments of the calls: (intent, entities, context, user_query)
SomeEntities ==
  [ numbers |-> << <<"2", "3">> >>, emails |-> << <<"a", "@", "b", ".", "c", "o">> >> ]

ProductContext == [ last_intent |-> "product_info", last_entities |-> EmptyDict ]

CallArgs ==
  { << "order_status", None, None, NoQuery >>,
    << "refund", None, None, NoQuery >>,
    << "order_status", SomeEntities, ProductContext, <<"t", "r", "a", "c", "k", " ", "o", "r", "d", "e", "r">> >>,
    << "order_status", SomeEntities, ProductContext, <<"t", "?">> >>,
    << "refund", None, None, <<"t", "?">> >>,
    << "greeting", EmptyDict, EmptyDict, <<>> >> }

\* the rows the callers of add_faq insert
NewFaqs ==
  { [ question |-> "T?", answer |-> "", category |-> "general",
      keywords |-> << <<"t", "?">> >> ] }

\* AdvancedResponseGenerator.__init__(use_ai_model, api_key, database) over
\* a database as Database.__init__ leaves it; the client exists exactly
\* when use_ai_model stays set
InitGenerator ==
  /\ database \in BOOLEAN
  /\ use_ai_model \in BOOLEAN
  /\ ai_client = use_ai_model
  /\ conversation_history = <<>>
  /\ faqs = IF database THEN default_faqs ELSE <<>>
  /\ frame = NoFrame

\* no recognizer is part of the run
NoRecognizer ==
  /\ text = <<>>
  /\ recognized = NoResult
  /\ extracted = NoResult
  /\ InitContext

InitSelector == InitGenerator /\ NoRecognizer /\ NoServe /\ NoStore /\ NoHost

\* the frame of a call that starts in the given stage
NewFrame(stage, intent, entities, ctx, user_query) ==
  [ pc |-> stage, intent |-> intent, entities |-> entities, context |-> ctx,
    user_query |-> user_query, ret |-> "", raised |-> FALSE, trace |-> <<>>,
    match |-> <<>>, kb_failed |-> FALSE, ai |-> "none",
    before |-> conversation_history ]

CanCall ==
  /\ frame.pc \in { "idle", "returned" }
  /\ Len(conversation_history) < MaxHistory
  /\ \A i \in DOMAIN faqs : faqs[i].usage_count < MaxUsage

\* AdvancedResponseGenerator.generate_response is entered
Call(intent, entities, ctx, user_query) ==
  /\ CanCall
  /\ frame' = NewFrame(first_stage(database, use_ai_model, ai_client, user_query),
                       intent, entities, ctx, user_query)
  /\ UNCHANGED << database, use_ai_model, ai_client, conversation_history, faqs >>
  /\ UNCHANGED << intentVars, contextVars, serveVars, storeVars, hostVars >>

\* ResponseGenerator.generate_response is entered
CallTemplate(intent, entities, ctx) ==
  /\ CanCall
  /\ frame' = NewFrame("template", intent, entities, ctx, NoQuery)
  /\ UNCHANGED << database, use_ai_model, ai_client, conversation_history, faqs >>
  /\ UNCHANGED << intentVars, contextVars, serveVars, storeVars, hostVars >>

\* lines 208-211: the lookup in the knowledge base
KbStage ==
  /\ frame.pc = "kb"
  /\ \E db_fails \in BOOLEAN :
       LET r == check_faq(database, faqs, frame.user_query, db_fails)
           ran == [ frame EXCEPT !.trace = Append(@, "knowledgebase"),
                                 !.kb_failed = db_fails,
                                 !.match = r.match ]
       IN  /\ faqs' = r.rows
           /\ frame' =
                IF r.raised
                  THEN [ ran EXCEPT !.pc = "returned", !.raised = TRUE ]
                  ELSE IF r.found /\ r.answer # ""
                    THEN [ ran EXCEPT !.pc = "returned", !.ret = r.answer ]
                    ELSE [ ran EXCEPT !.pc = after_kb(use_ai_model, ai_client,
                                                      frame.user_query, db_fails) ]
  /\ UNCHANGED << database, use_ai_model, ai_client, conversation_history >>
  /\ UNCHANGED << intentVars, contextVars, serveVars, storeVars, hostVars >>

\* lines 214-218: the call of the generative service
AiStage ==
  /\ frame.pc = "ai"
  /\ \E ai \in AiOutcomes :
       LET r == generate_response_ai(ai_client, conversation_history, frame.intent, ai)
           ran == [ frame EXCEPT !.trace = Append(@, "generative"), !.ai = ai.kind ]
       IN  /\ conversation_history' = r.history
           /\ frame' =
                IF r.fallback
                  THEN [ ran EXCEPT !.pc = "template" ]
                  ELSE [ ran EXCEPT !.pc = "returned", !.ret = r.ret ]
  /\ UNCHANGED << database, use_ai_model, ai_client, faqs >>
  /\ UNCHANGED << intentVars, contextVars, serveVars, storeVars, hostVars >>

\* line 221 and ResponseGenerator.generate_response: the template stage
TemplateStage ==
  /\ frame.pc = "template"
  /\ \E choice \in IF templates_for(frame.intent) = <<>>
                     THEN { 0 }
                     ELSE DOMAIN templates_for(frame.intent) :
       LET r == base_generate_response(conversation_history, frame.intent,
                                       frame.entities, frame.context, choice)
           ran == [ frame EXCEPT !.trace = Append(@, "template"), !.pc = "returned" ]
       IN  /\ conversation_history' = r.history
           /\ frame' = [ ran EXCEPT !.ret = r.ret, !.raised = r.raised ]
  /\ UNCHANGED << database, use_ai_model, ai_client, faqs >>
  /\ UNCHANGED << intentVars, contextVars, serveVars, storeVars, hostVars >>

\* clear_history(), between calls
ClearHistory ==
  /\ frame.pc \in { "idle", "returned" }
  /\ conversation_history' = <<>>
  /\ frame' = NoFrame
  /\ UNCHANGED << database, use_ai_model, ai_client, faqs >>
  /\ UNCHANGED << intentVars, contextVars, serveVars, storeVars, hostVars >>

\* Database.add_faq(question, answer, category, keywords), between calls
AddFaq(faq) ==
  /\ database
  /\ frame.pc \in { "idle", "returned" }
  /\ Len(faqs) < MaxFaqs
  /\ faqs' = add_faq(faqs, faq.question, faq.answer, faq.category, faq.keywords)
  /\ UNCHANGED << database, use_ai_model, ai_client, conversation_history, frame >>
  /\ UNCHANGED << intentVars, contextVars, serveVars, storeVars, hostVars >>

NextSelector ==
  \/ \E a \in CallArgs : Call(a[1], a[2], a[3], a[4])
  \/ \E a \in CallArgs : CallTemplate(a[1], a[2], a[3])
  \/ KbStage
  \/ AiStage
  \/ TemplateStage
  \/ ClearHistory
  \/ \E faq \in NewFaqs : AddFaq(faq)

SpecSelector == InitSelector /\ [][NextSelector]_vars

-----------------------------------------------------------------------------
(* The response selector: properties *)

Returned == frame.pc = "returned"

\* the stage that ran last in the call
LastStage == frame.trace[Len(frame.trace)]

\* the lookup or the generative call of the returned call failed
KbFailed == "knowledgebase" \in Range(frame.trace) /\ frame.kb_failed

AiFailed == frame.ai \in { "raise", "no_content" }

\* C1: a generate_response call that has come back has raised nothing and
\* has handed back a string, whatever the intent, the entities, the context
\* and the outcomes of the knowledge base and of the generative service
\* were (the catalog has its 'unknown' entry)
C1_AlwaysReturnsString ==
  /\ "unknown" \in DOMAIN response_templates
  /\ Returned => ~frame.raised /\ frame.ret \in STRING

\* a call for an intent absent from the catalog has returned after the
\* lookup failed and the generative service raised
C1_Witness ==
  /\ Returned
  /\ frame.intent \notin DOMAIN response_templates
  /\ KbFailed
  /\ frame.ai = "raise"
  /\ ~frame.raised

\* C2: the stages run in the order knowledge base, generative, template,
\* the knowledge base first whenever a store is configured and a query is
\* supplied; and when the matcher returned a record the response is that
\* record's answer and no other stage ran
C2_FirstAnswerWins ==
  Returned =>
    /\ frame.trace \in { <<"knowledgebase">>,
                         <<"knowledgebase", "generative">>,
                         <<"knowledgebase", "generative", "template">>,
                         <<"knowledgebase", "template">>,
                         <<"generative">>,
                         <<"generative", "template">>,
                         <<"template">> }
    /\ database /\ IsTruthyText(frame.user_query) => frame.trace[1] = "knowledgebase"
    /\ frame.match # <<>> =>
         /\ frame.ret = frame.match[1].answer
         /\ frame.trace = <<"knowledgebase">>

\* C3: when the lookup failed the call went on with the generative stage if
\* one is configured and with the template stage otherwise; when the
\* generative call failed the call returned the response of the template
\* stage; in both cases the call raised nothing
C3_FailureAdvances ==
  Returned =>
    /\ KbFailed =>
         /\ ~frame.raised
         /\ Len(frame.trace) >= 2
         /\ frame.trace[2] = IF use_ai_model /\ ai_client THEN "generative" ELSE "template"
    /\ AiFailed =>
         /\ ~frame.raised
         /\ LastStage = "template"
         /\ \E i \in DOMAIN templates_for(frame.intent) :
              frame.ret = template_response(templates_for(frame.intent)[i], frame.intent,
                                            frame.entities, frame.context, frame.before)

\* a call has returned after the lookup failed and the generative service,
\* tried next, failed as well
C3_Witness ==
  /\ Returned
  /\ KbFailed
  /\ AiFailed
  /\ frame.trace = <<"knowledgebase", "generative", "template">>

\* C7: a call that has returned a response has appended exactly one record
\* to the history and left the earlier records alone; the record carries
\* the intent, the returned text and, as its method, the stage that
\* produced the response
C7_OneTaggedRecord ==
  Returned /\ ~frame.raised =>
    /\ Len(conversation_history) = Len(frame.before) + 1
    /\ SubSeq(conversation_history, 1, Len(frame.before)) = frame.before
    /\ LET record == conversation_history[Len(conversation_history)]
       IN  /\ record.intent = frame.intent
           /\ record.response = frame.ret
           /\ "method" \in DOMAIN record
           /\ record.method \in { "template", "knowledgebase", "generative" }
           /\ record.method = LastStage

\* C10: a call that reached the template stage without entities and without
\* context returned a non-empty member of the template list of its intent,
\* of the 'unknown' list for an intent absent from the catalog
C10_TemplateMember ==
  /\ Returned
  /\ LastStage = "template"
  /\ ~IsTruthyDict(frame.entities)
  /\ ~IsTruthyDict(frame.context)
  => /\ frame.ret # ""
     /\ frame.ret \in Range(IF frame.intent \in DOMAIN RESPONSE_TEMPLATES
                              THEN RESPONSE_TEMPLATES[frame.intent]
                              ELSE RESPONSE_TEMPLATES["unknown"])

\* after an earlier call, a call for an intent absent from the catalog has
\* returned a member of the 'unknown' list
C10_Witness ==
  /\ Returned
  /\ LastStage = "template"
  /\ frame.entities = None
  /\ frame.context = None
  /\ frame.intent \notin DOMAIN RESPONSE_TEMPLATES
  /\ Len(frame.before) > 0
  /\ frame.ret \in Range(RESPONSE_TEMPLATES["unknown"])

-----------------------------------------------------------------------------
(* The serving process: app.py and streamlit_app.py *)

\* AdvancedResponseGenerator.generate_response from the call to the return,
\* for given outcomes of the lookup, of the generative service and of
\* random.choice; stage is the stage that ended the call
generate_response(has_database, use_ai, has_client, history, rows, intent, entities, ctx, user_query, db_fails, ai, choice) ==
  LET first == first_stage(has_database, use_ai, has_client, user_query)
      kb == IF first = "kb"
              THEN check_faq(has_database, rows, user_query, db_fails)
              ELSE check_faq(FALSE, rows, user_query, FALSE)
      second == IF first = "kb"
                  THEN after_kb(use_ai, has_client, user_query, db_fails)
                  ELSE first
      gen == generate_response_ai(has_client, history, intent, ai)
      tmpl == base_generate_response(IF second = "ai" THEN gen.history ELSE history,
                                     intent, entities, ctx, choice)
  IN  IF kb.raised
        THEN [ raised |-> TRUE, ret |-> "", history |-> history, rows |-> kb.rows,
               stage |-> "knowledgebase" ]
        ELSE IF kb.found /\ kb.answer # ""
          THEN [ raised |-> FALSE, ret |-> kb.answer, history |-> history,
                 rows |-> kb.rows, stage |-> "knowledgebase" ]
          ELSE IF second = "ai" /\ ~gen.fallback
            THEN [ raised |-> FALSE, ret |-> gen.ret, history |-> gen.history,
                   rows |-> kb.rows, stage |-> "generative" ]
            ELSE [ raised |-> tmpl.raised, ret |-> tmpl.ret, history |-> tmpl.history,
                   rows |-> kb.rows, stage |-> "template" ]

\* the texts of the requests
ServeTexts == { <<"h", "i">>, <<"i", "t", "e", "m", " ", "2", "3">> }

\* app.py builds the module globals intent_recognizer and response_generator
\* (a ResponseGenerator: no database, no client); initialize_bot builds the
\* cached components of streamlit_app.py (an AdvancedResponseGenerator over
\* the database, with a client when a key is set); every conversation is
\* served by these same objects
InitServe ==
  /\ database \in BOOLEAN
  /\ use_ai_model \in IF database THEN BOOLEAN ELSE { FALSE }
  /\ ai_client = use_ai_model
  /\ conversation_history = <<>>
  /\ faqs = IF database THEN default_faqs ELSE <<>>
  /\ frame = NoFrame
  /\ NoRecognizer
  /\ NoServe
  /\ NoStore
  /\ NoHost

\* the requests that have been analyzed and not yet answered
Pending == { c \in Conversations : turn[c].pc = "analyzed" }

\* process_text / process_message of conversation c, up to and including
\* analysis = intent_recognizer.analyze_query(user_text)
ServeAnalyze(c, t) ==
  LET intent == TurnAnalysis[t].recognized[1]
      entities == TurnAnalysis[t].entities
  IN  /\ turn[c].pc = "idle"
      /\ Len(conversation_history) + Cardinality(Pending) < MaxHistory
      /\ text' = t
      /\ recognized' = TurnAnalysis[t].recognized
      /\ extracted' = << entities >>
      /\ heap' = [ heap EXCEPT ![context] = update_context(@, intent, entities) ]
      /\ lastUpdate' = << intent, entities >>
      /\ ctxOwner' = c
      /\ turn' = [ turn EXCEPT ![c] = [ pc |-> "analyzed", text |-> t, intent |-> intent,
                                        entities |-> entities, context |-> context ] ]
      /\ UNCHANGED << context, held, heldValue, generatorVars, lastTurn, histOwner, storeVars, hostVars >>

\* process_text / process_message of conversation c from
\* response_generator.generate_response on: streamlit_app.py passes the
\* text as user_query, app.py passes no user_query
ServeRespond(c) ==
  /\ turn[c].pc = "analyzed"
  /\ \E db_fails \in BOOLEAN, ai \in AiOutcomes,
        choice \in DOMAIN templates_for(turn[c].intent) :
       LET r == generate_response(database, use_ai_model, ai_client,
                                  conversation_history, faqs,
                                  turn[c].intent, turn[c].entities,
                                  heap[turn[c].context],
                                  IF database THEN turn[c].text ELSE NoQuery,
                                  db_fails, ai, choice)
       IN  /\ conversation_history' = r.history
           /\ faqs' = r.rows
           /\ histOwner' = IF Len(r.history) > Len(conversation_history)
                             THEN Append(histOwner, c)
                             ELSE histOwner
           /\ lastTurn' = [ pc |-> "responded", conversation |-> c,
                            intent |-> turn[c].intent, response |-> r.ret,
                            stage |-> r.stage,
                            context_of |-> ctxOwner,
                            history_of |-> Range(histOwner) ]
  /\ turn' = [ turn EXCEPT ![c] = [ pc |-> "idle" ] ]
  /\ UNCHANGED << database, use_ai_model, ai_client, frame, ctxOwner >>
  /\ UNCHANGED << intentVars, contextVars, storeVars, hostVars >>

NextServe ==
  \/ \E c \in Conversations, t \in ServeTexts : ServeAnalyze(c, t)
  \/ \E c \in Conversations : ServeRespond(c)

SpecServe == InitServe /\ [][NextServe]_vars

\* C4: the context and the history the template stage consulted for a turn
\* of a conversation were written by that conversation only
C4_IsolatedPerConversation ==
  lastTurn.pc = "responded" /\ lastTurn.stage = "template" =>
    /\ lastTurn.context_of = lastTurn.conversation
    /\ lastTurn.history_of \subseteq { lastTurn.conversation }

-----------------------------------------------------------------------------
(* modules/database.py: the clients of the faqs table *)

\* a bound on the tokens of a match call
MaxTokens == 2

\* the tokens handed to get_faq_by_keywords: lower-case words
StoreTokens ==
  { <<"t", "r", "a", "c", "k">>,
    <<"o", "r", "d", "e", "r">>,
    <<"t", "r", "a", "c", "k", "i", "n", "g">>,
    <<"t", "?">> }

\* the token lists of up to n tokens
RECURSIVE TokenListsUpTo(_)
TokenListsUpTo(n) ==
  IF n = 0
    THEN { <<>> }
    ELSE TokenListsUpTo(n - 1)
           \cup { Append(l, t) : l \in { x \in TokenListsUpTo(n - 1) : Len(x) = n - 1 },
                                 t \in StoreTokens }

TokenLists == TokenListsUpTo(MaxTokens)

\* the rows the callers of add_faq insert: a keyword a default row has too,
\* a keyword longer than a token, the empty keyword the form of
\* streamlit_app.py stores for an empty keywords field, and a keyword no
\* default row has
StoreFaqs ==
  { [ question |-> "Where is my parcel?", answer |-> "Track it with your order number.",
      category |-> "orders", keywords |-> << <<"t", "r", "a", "c", "k">> >> ],
    [ question |-> "Do you offer tracking?", answer |-> "Yes.",
      category |-> "orders", keywords |-> << <<"t", "r", "a", "c", "k", "i", "n", "g">> >> ],
    [ question |-> "Anything else?", answer |-> "Ask us.",
      category |-> "general", keywords |-> << <<>> >> ],
    [ question |-> "T?", answer |-> "", category |-> "general",
      keywords |-> << <<"t", "?">> >> ] }

\* Database.__init__ on a new file: the default rows, no call made yet
InitStore ==
  /\ database = TRUE
  /\ use_ai_model = FALSE
  /\ ai_client = FALSE
  /\ conversation_history = <<>>
  /\ faqs = default_faqs
  /\ frame = NoFrame
  /\ NoRecognizer
  /\ NoServe
  /\ NoStore
  /\ NoHost

\* how often a match call returned the record
CountOf(id) == IF id \in DOMAIN returnCount THEN returnCount[id] ELSE 0

\* the counts after one more call returned the record
Counted(id) ==
  [ k \in DOMAIN returnCount \cup { id } |-> IF k = id THEN CountOf(id) + 1 ELSE returnCount[k] ]

\* the calls under way
Active == { p \in Clients : calls[p].pc # "idle" }

\* get_faq_by_keywords(keywords), from the connection to the commit, while
\* no other client uses the table
Match(keywords) ==
  /\ Active = {}
  /\ \A i \in DOMAIN faqs : faqs[i].usage_count < MaxUsage
  /\ LET r == get_faq_by_keywords(faqs, keywords)
     IN  /\ faqs' = r.rows
         /\ matched' = [ pc |-> "returned", keywords |-> keywords,
                         rows |-> Len(faqs), match |-> r.match ]
         /\ returnCount' = IF r.match = <<>> THEN returnCount ELSE Counted(r.match[1].id)
  /\ UNCHANGED << database, use_ai_model, ai_client, conversation_history, frame >>
  /\ UNCHANGED << intentVars, contextVars, serveVars, calls, wlock, overlaps, hostVars >>

\* the token lists of the calls of a run of match and add calls
StoreLists ==
  { <<>>,
    << <<"t", "r", "a", "c", "k">> >>,
    << <<"t", "?">> >>,
    << <<"r", "e", "f", "u", "n", "d">> >>,
    << <<"t", "r", "a", "c", "k">>, <<"t", "r", "a", "c", "k", "i", "n", "g">> >> }

NextStore ==
  \/ \E keywords \in StoreLists : Match(keywords)
  \/ \E faq \in StoreFaqs : AddFaq(faq)

SpecStore == InitStore /\ [][NextStore]_vars

\* the default rows followed by up to n added rows
RECURSIVE CollectionsUpTo(_)
CollectionsUpTo(n) ==
  IF n = 0
    THEN { default_faqs }
    ELSE CollectionsUpTo(n - 1)
           \cup { add_faq(rows, faq.question, faq.answer, faq.category, faq.keywords) :
                    rows \in { r \in CollectionsUpTo(n - 1) :
                                 Len(r) = Len(default_faqs) + n - 1 },
                    faq \in StoreFaqs }

\* the stored collections the matcher is called on
StoreCollections == CollectionsUpTo(MaxFaqs - Len(default_faqs))

\* a stored collection and the token list of a call about to be made
InitMatcher ==
  /\ database = TRUE
  /\ use_ai_model = FALSE
  /\ ai_client = FALSE
  /\ conversation_history = <<>>
  /\ faqs \in StoreCollections
  /\ frame = NoFrame
  /\ NoRecognizer
  /\ NoServe
  /\ calls = [ p \in Clients |-> [ pc |-> "idle" ] ]
  /\ wlock = 0
  /\ matched \in { [ pc |-> "called", keywords |-> keywords ] : keywords \in TokenLists }
  /\ returnCount = [ id \in {} |-> 0 ]
  /\ overlaps = 0
  /\ NoHost

\* the call of get_faq_by_keywords about to be made
MatchCalled ==
  /\ matched.pc = "called"
  /\ Match(matched.keywords)

SpecMatcher == InitMatcher /\ [][MatchCalled]_vars

\* the token lists of the concurrent calls: each selects the default row
\* about order tracking
SameRecordLists == { << <<"t", "r", "a", "c", "k">> >>, << <<"t", "r", "a", "c", "k">>, <<"o", "r", "d", "e", "r">> >> }

\* lines 231-249 of a call: the connection, SELECT * FROM faqs and the
\* loop over the rows; without a match the call returns None at once
Select(p, keywords) ==
  /\ calls[p].pc = "idle"
  /\ \A i \in DOMAIN faqs : faqs[i].usage_count + Cardinality(Active) < MaxUsage
  /\ LET b == best_row(faqs, keywords, 1, 0, 0)
     IN  /\ calls' = [ calls EXCEPT ![p] =
                         IF b = 0
                           THEN [ pc |-> "idle" ]
                           ELSE [ pc |-> "selected", keywords |-> keywords,
                                  match |-> << best_match_of(faqs, b) >> ] ]
         /\ matched' = IF b = 0
                         THEN [ pc |-> "returned", keywords |-> keywords,
                                rows |-> Len(faqs), match |-> <<>> ]
                         ELSE matched
         /\ overlaps' = IF b # 0 /\ Active # {} THEN overlaps + 1 ELSE overlaps
  /\ UNCHANGED << generatorVars, intentVars, contextVars, serveVars, wlock, returnCount, hostVars >>

\* lines 251-256: the UPDATE opens the write transaction of the connection;
\* SQLite lets one connection write at a time, the others wait
Update(p) ==
  /\ calls[p].pc = "selected"
  /\ wlock = 0
  /\ wlock' = p
  /\ calls' = [ calls EXCEPT ![p].pc = "updated" ]
  /\ UNCHANGED << generatorVars, intentVars, contextVars, serveVars, hostVars >>
  /\ UNCHANGED << matched, returnCount, overlaps >>

\* line 257 and the exit of get_connection: the commit makes the new count
\* visible to the other connections, and the call returns best_match
Commit(p) ==
  /\ calls[p].pc = "updated"
  /\ wlock = p
  /\ wlock' = 0
  /\ faqs' = increment_usage(faqs, calls[p].match[1].id, calls[p].match[1].usage_count)
  /\ matched' = [ pc |-> "returned", keywords |-> calls[p].keywords,
                  rows |-> Len(faqs), match |-> calls[p].match ]
  /\ returnCount' = Counted(calls[p].match[1].id)
  /\ calls' = [ calls EXCEPT ![p] = [ pc |-> "idle" ] ]
  /\ UNCHANGED << database, use_ai_model, ai_client, conversation_history, frame >>
  /\ UNCHANGED << intentVars, contextVars, serveVars, overlaps, hostVars >>

\* token lists that select another record, or none
OtherLists == { << <<"r", "e", "f", "u", "n", "d">> >>, << <<"t", "?">> >> }

NextClients ==
  \/ \E p \in Clients, keywords \in SameRecordLists \cup OtherLists : Select(p, keywords)
  \/ \E p \in Clients : Update(p)
  \/ \E p \in Clients : Commit(p)

SpecClients == InitStore /\ [][NextClients]_vars

-----------------------------------------------------------------------------
(* The faqs table: properties *)

\* the tokens of the list that contain a keyword of the record
Overlap(keywords, record) ==
  { j \in DOMAIN keywords :
      \E k \in DOMAIN record.keywords : Contains(keywords[j], record.keywords[k]) }

\* the rows with the greatest number of overlapping tokens
BestRows(keywords, rows) ==
  { i \in DOMAIN rows :
      \A j \in DOMAIN rows :
        Cardinality(Overlap(keywords, rows[i])) >= Cardinality(Overlap(keywords, rows[j])) }

\* C11: the score of a record is the number of tokens that contain one of
\* its keywords; a call returns none when no record has a positive score
\* and else the earliest-stored record among those with the greatest score
\* (the rows of the call are the first matched.rows rows of the table: rows
\* are only ever appended, and the call changes no keyword)
C11_EarliestBestRecord ==
  matched.pc = "returned" =>
    LET rows == SubSeq(faqs, 1, matched.rows)
        keywords == matched.keywords
        best == BestRows(keywords, rows)
        first == CHOOSE i \in best : \A j \in best : i <= j
    IN  /\ \A i \in DOMAIN rows :
             faq_score(keywords, rows[i].keywords) = Cardinality(Overlap(keywords, rows[i]))
        /\ IF Overlap(keywords, rows[first]) = {}
             THEN matched.match = <<>>
             ELSE /\ matched.match # <<>>
                  /\ matched.match[1].id = rows[first].id
                  /\ matched.match[1].answer = rows[first].answer

\* two records tie on the greatest score and the earlier one was returned
C11_Witness ==
  /\ matched.pc = "returned"
  /\ matched.match # <<>>
  /\ Cardinality(BestRows(matched.keywords, faqs)) >= 2
  /\ \E i \in BestRows(matched.keywords, faqs) : faqs[i].id > matched.match[1].id
  /\ matched.keywords = << <<"t", "r", "a", "c", "k">> >>

\* C12: after any sequence of match and add calls the usage_count of every
\* record is the number of match calls that returned it (so a match raises
\* the count of the record it returns by one and no other count, a match
\* that returns none changes no count, and no count is ever lowered)
C12_UsageCountsReturns ==
  \A i \in DOMAIN faqs : faqs[i].usage_count = CountOf(faqs[i].id)

\* a row added by add_faq and a default row were each returned, another
\* default row never, and the call made last returned none
C12_Witness ==
  /\ matched.pc = "returned"
  /\ matched.match = <<>>
  /\ Len(faqs) > Len(default_faqs)
  /\ faqs[Len(faqs)].usage_count = 1
  /\ faqs[2].usage_count = 1
  /\ faqs[1].usage_count = 0

\* C13: once the concurrent calls have all returned, the count of the
\* record they selected is as many higher than at the start as calls
\* returned it
C13_NoLostUpdate ==
  Active = {} =>
    \A i \in DOMAIN faqs :
      faqs[i].usage_count = default_faqs[i].usage_count + CountOf(faqs[i].id)

\* two calls that overlapped in time both returned the same record
C13_Witness ==
  /\ Active = {}
  /\ overlaps >= 1
  /\ CountOf(2) = 2
  /\ faqs[2].usage_count = 2

-----------------------------------------------------------------------------
(* The response selector: a failing generative service *)

\* the outcomes of a completion request that make the generative stage fail
FailingOutcomes == { ai \in AiOutcomes : ai.kind # "content" }

\* what the call just entered can return, change and end in, with the
\* generative stage configured or not, for the given outcomes of the
\* service and of the lookup
ResultsOfCall(use_ai, outcomes, db_fails) ==
  { generate_response(database, use_ai, use_ai, conversation_history, faqs,
                      frame.intent, frame.entities, frame.context, frame.user_query,
                      db_fails, ai, choice) :
      ai \in outcomes, choice \in DOMAIN templates_for(frame.intent) }

\* a call was entered and no stage has run yet
Entered == frame.pc \in { "kb", "ai", "template" } /\ frame.trace = <<>>

\* C14: for the arguments, the history and the table of any call, a
\* selector whose generative service always fails and a selector without
\* generative stage end in the same stage, can return the same texts and
\* leave the same history and table
C14_FailingAiAsDisabled ==
  Entered =>
    \A db_fails \in BOOLEAN :
      ResultsOfCall(TRUE, FailingOutcomes, db_fails) = ResultsOfCall(FALSE, AiOutcomes, db_fails)

\* a call with a query, entities and a context was entered on a selector
\* with a generative stage, after an earlier call, and the lookup will find
\* no record
C14_Witness ==
  /\ Entered
  /\ use_ai_model
  /\ database
  /\ IsTruthyText(frame.user_query)
  /\ IsTruthyDict(frame.entities)
  /\ Len(conversation_history) > 0
  /\ best_row(faqs, Split(Lower(frame.user_query)), 1, 0, 0) = 0

-----------------------------------------------------------------------------
(* AnalyticsTracker and MetricsCollector: analytics.py *)

\* a bound on the entries of in_memory_metrics
MaxMetrics == 2

\* the entries of in_memory_metrics
Tracked(m) == Len(m.queries) + Len(m.errors)

\* a mutant of track_query that lets a failure of the sink out
track_query_unguarded(m, has_database, intent, success, sink_fails) ==
  IF has_database /\ sink_fails
    THEN [ raised |-> TRUE, metrics |-> m ]
    ELSE [ raised |-> FALSE,
           metrics |-> [ m EXCEPT !.queries =
                           Append(@, [ intent |-> intent, success |-> success ]) ] ]

\* track_query(user_query, intent, confidence, response_time, success):
\* log_metric and log_error run inside a try, then the entry is appended
track_query(m, has_database, intent, success, sink_fails) ==
  [ raised |-> FALSE,
    metrics |-> [ m EXCEPT !.queries =
                    Append(@, [ intent |-> intent, success |-> success ]) ] ]

\* track_error(error_type, error_message, context): log_error runs inside a
\* try, then the entry is appended
track_error(m, has_database, error_type, sink_fails) ==
  [ raised |-> FALSE,
    metrics |-> [ m EXCEPT !.errors = Append(@, [ type |-> error_type ]) ] ]

\* MetricsCollector.__exit__(exc_type, exc_val, exc_tb): log_metric is
\* called outside any try, nothing is appended to in_memory_metrics, and the
\* exception of the body is not suppressed
collector_exit(m, has_database, body_raised, sink_fails) ==
  [ raised |-> body_raised \/ (has_database /\ sink_fails), metrics |-> m ]

-----------------------------------------------------------------------------
(* The request handlers: main.py, app.py, streamlit_app.py *)

\* what transcribe_audio_file returns: None after an error of the service,
\* '' for audio without speech, or the text
Transcriptions == { NoQuery, <<>> } \cup TurnTexts

\* the texts posted to /api/process-text, before .strip()
PostedTexts == { <<>>, <<" ">>, <<" ", "h", "i", " ">> } \cup TurnTexts

\* the uploads posted to /api/process-audio
Uploads == { "none", "unnamed", "not_audio", "audio" }

\* a mutant of no_text that takes only None for a failed transcription
no_text_none_only(user_text) == user_text = NoQuery

\* if not user_text:
no_text(user_text) == ~IsTruthyText(user_text)

\* the result of a handler: what the caller receives (status, response_text,
\* audio) and what the handler did on the way (transcribed: it called
\* transcribe_audio_file, which returned user_text; context: the dict it
\* handed to generate_response, None when it made no call)
Result(handler, ctx, status, transcribed, user_text, response, computed, tts_failed, audio) ==
  [ pc |-> "done", handler |-> handler, context |-> ctx, status |-> status,
    transcribed |-> transcribed, user_text |-> user_text,
    response_text |-> IF status = "ok" THEN response ELSE "",
    computed |-> computed, text_computed |-> response,
    tts_failed |-> tts_failed, audio |-> audio ]

\* the result of a handler that stopped before the pipeline
Refused(handler, status, transcribed, user_text) ==
  Result(handler, None, status, transcribed, user_text, "", FALSE, FALSE, "absent")

\* the dict analyze_query(t) returns: the intent with its confidence, and
\* the entities
Analysis(t) ==
  IF t \in DOMAIN TurnAnalysis
    THEN TurnAnalysis[t]
    ELSE [ recognized |-> recognize_intent(t), entities |-> extract_entities(t) ]

\* analysis = intent_recognizer.analyze_query(t): what the call leaves in
\* the recognizer
Analyze(t, analysis) ==
  /\ text' = t
  /\ recognized' = analysis.recognized
  /\ extracted' = << analysis.entities >>
  /\ heap' = [ heap EXCEPT ![context] =
                 update_context(@, analysis.recognized[1], analysis.entities) ]
  /\ lastUpdate' = << analysis.recognized[1], analysis.entities >>
  /\ UNCHANGED << context, held, heldValue >>

\* analysis['context']: self.context, the dict of the recognizer, which
\* analyze_query has updated with the intent and the entities of this text
\* before it returns
Handed(analysis) ==
  update_context(heap[context], analysis.recognized[1], analysis.entities)

\* response_generator.generate_response(analysis['intent'],
\* analysis['entities'], analysis['context']), with user_query where the
\* handler passes it
Respond(analysis, query, db_fails, ai, choice) ==
  generate_response(database, use_ai_model, ai_client, conversation_history, faqs,
                    analysis.recognized[1], analysis.entities, Handed(analysis),
                    query, db_fails, ai, choice)

\* the template lists random.choice can be handed for the analysis
Choices(analysis) == DOMAIN templates_for(analysis.recognized[1])

\* the pipeline does not run: no state of the components changes
NotEntered ==
  /\ UNCHANGED << intentVars, contextVars, generatorVars >>

\* the pipeline runs for the text: analyze_query, then generate_response
RunPipeline(t, analysis, r) ==
  /\ Len(conversation_history) < MaxHistory
  /\ \A i \in DOMAIN faqs : faqs[i].usage_count < MaxUsage
  /\ Analyze(t, analysis)
  /\ conversation_history' = r.history
  /\ faqs' = r.rows
  /\ UNCHANGED << database, use_ai_model, ai_client, frame >>

\* with open(audio_file, 'rb') after synthesize_speech(response_text,
\* audio_file): the file of this response when the synthesis worked;
\* otherwise the file is missing (open raises), unless an earlier response
\* of the same second left a file of that name
AudioRead(tts_ok, stale) ==
  IF tts_ok THEN "present" ELSE IF stale THEN "stale" ELSE "missing"

\* VoiceBot.process_text_input(text)
process_text_input(t) ==
  \E analysis \in { Analysis(t) } :
  \E choice \in Choices(analysis) :
  \E r \in { Respond(analysis, NoQuery, FALSE, [ kind |-> "raise" ], choice) } :
    /\ RunPipeline(t, analysis, r)
    /\ result' = Result("process_text_input", Handed(analysis), IF r.raised THEN "error" ELSE "ok",
                        FALSE, t, r.ret, TRUE, FALSE, "absent")

\* a call of process_text_input
ProcessTextInput(t) ==
  /\ app = "cli"
  /\ process_text_input(t)
  /\ UNCHANGED << app, analyticsVars, configVars, serveVars, storeVars, audioVars, chatVars, sessionVars >>

\* VoiceBot.process_voice_input(audio_file_path): the dict it returns names
\* the audio file whether or not synthesize_speech wrote it
process_voice_input(user_text, tts_ok) ==
  IF no_text(user_text)
    THEN /\ NotEntered
         /\ result' = Refused("process_voice_input", "none", TRUE, user_text)
    ELSE \E analysis \in { Analysis(user_text) } :
         \E choice \in Choices(analysis) :
         \E r \in { Respond(analysis, NoQuery, FALSE, [ kind |-> "raise" ], choice) } :
           /\ RunPipeline(user_text, analysis, r)
           /\ result' = Result("process_voice_input", Handed(analysis),
                               IF r.raised THEN "error" ELSE "ok",
                               TRUE, user_text, r.ret, TRUE, ~tts_ok,
                               IF tts_ok THEN "present" ELSE "absent")

\* a call of process_voice_input
ProcessVoiceInput(user_text, tts_ok) ==
  /\ app = "cli"
  /\ process_voice_input(user_text, tts_ok)
  /\ UNCHANGED << app, analyticsVars, configVars, serveVars, storeVars, audioVars, chatVars, sessionVars >>

\* the rest of process_text and process_audio after the text is there
FlaskPipeline(handler, user_text) ==
  \E analysis \in { Analysis(user_text) } :
  \E choice \in Choices(analysis) :
  \E r \in { Respond(analysis, NoQuery, FALSE, [ kind |-> "raise" ], choice) } :
  \E tts_ok \in BOOLEAN, stale \in BOOLEAN :
    LET audio == AudioRead(tts_ok, stale)
    IN  /\ RunPipeline(user_text, analysis, r)
        /\ result' = Result(handler, Handed(analysis),
                            IF r.raised \/ audio = "missing" THEN "error" ELSE "ok",
                            handler = "process_audio", user_text, r.ret, ~r.raised, ~tts_ok,
                            IF audio = "missing" THEN "absent" ELSE audio)

\* process_text() of app.py
ProcessText(posted) ==
  /\ app = "flask"
  /\ IF no_text(Strip(posted))
       THEN /\ NotEntered
            /\ result' = Refused("process_text", "error", FALSE, Strip(posted))
       ELSE FlaskPipeline("process_text", Strip(posted))
  /\ UNCHANGED << app, analyticsVars, configVars, serveVars, storeVars, audioVars, chatVars, sessionVars >>

\* process_audio() of app.py
ProcessAudio(upload, user_text) ==
  /\ app = "flask"
  /\ IF upload # "audio" \/ no_text(user_text)
       THEN /\ NotEntered
            /\ result' = Refused("process_audio", "error", upload = "audio",
                                 IF upload = "audio" THEN user_text ELSE NoQuery)
       ELSE FlaskPipeline("process_audio", user_text)
  /\ UNCHANGED << app, analyticsVars, configVars, serveVars, storeVars, audioVars, chatVars, sessionVars >>

\* a bound on the messages of the Streamlit page that are tracked
MaxMessages == 1

\* what saving the two messages of the turn does: no conversation id is
\* set, add_message works, or add_message raises
Saves == { "no_conversation", "saved", "raised" }

\* process_message(user_input, bot_components, is_audio) of
\* streamlit_app.py, on a typed text or on a recording; every exception
\* after the transcription is tracked with track_error and the handler
\* returns None
process_message(is_audio, user_text) ==
  IF is_audio /\ no_text(user_text)
    THEN /\ NotEntered
         /\ result' = Refused("process_message", "none", TRUE, user_text)
         /\ UNCHANGED metrics
    ELSE \E analysis \in { Analysis(user_text) } :
         \E db_fails \in BOOLEAN, ai \in AiOutcomes, choice \in Choices(analysis) :
         \E r \in { Respond(analysis, user_text, db_fails, ai, choice) } :
         \E tts_ok \in BOOLEAN, stale \in BOOLEAN, save \in Saves, sink_fails \in BOOLEAN :
           LET audio == AudioRead(tts_ok, stale)
               query == track_query(metrics, database, analysis.recognized[1],
                                    TRUE, sink_fails)
               failed == \/ r.raised
                         \/ audio = "missing"
                         \/ query.raised
                         \/ save = "raised"
               after == IF r.raised \/ audio = "missing" \/ query.raised
                          THEN metrics
                          ELSE query.metrics
               error == track_error(after, database, "processing_error", sink_fails)
           IN  /\ RunPipeline(user_text, analysis, r)
               /\ metrics' = IF failed THEN error.metrics ELSE after
               /\ result' = Result("process_message", Handed(analysis),
                                   IF failed THEN "none" ELSE "ok",
                                   is_audio, user_text, r.ret, ~r.raised,
                                   ~r.raised /\ ~tts_ok,
                                   IF r.raised \/ audio = "missing"
                                     THEN "absent" ELSE audio)

\* a call of process_message on a typed text or on a recording
ProcessMessage(is_audio, user_text) ==
  /\ app = "streamlit"
  /\ is_audio \/ user_text \in TurnTexts
  /\ Tracked(metrics) < MaxMessages
  /\ process_message(is_audio, user_text)
  /\ UNCHANGED << app, tracked, configVars, serveVars, storeVars, audioVars, chatVars, sessionVars >>

\* the applications: the console bot of main.py and the Flask service of
\* app.py answer with a ResponseGenerator; the Streamlit page answers with an
\* AdvancedResponseGenerator over the database, with a client when a key is
\* set
InitApps ==
  /\ app \in { "cli", "flask", "streamlit" }
  /\ database = (app = "streamlit")
  /\ use_ai_model \in IF database THEN BOOLEAN ELSE { FALSE }
  /\ ai_client = use_ai_model
  /\ conversation_history = <<>>
  /\ faqs = IF database THEN default_faqs ELSE <<>>
  /\ frame = NoFrame
  /\ NoRecognizer
  /\ NoServe
  /\ NoStore
  /\ NoChat
  /\ NoSession
  /\ NoAudio
  /\ result = [ pc |-> "none" ]
  /\ metrics = [ queries |-> <<>>, errors |-> <<>> ]
  /\ tracked = [ pc |-> "none" ]
  /\ catalog = RESPONSE_TEMPLATES
  /\ keyword_config = INTENT_KEYWORDS
  /\ startup = "none"

NextApps ==
  \/ \E t \in TurnTexts : ProcessTextInput(t)
  \/ \E user_text \in Transcriptions, tts_ok \in BOOLEAN :
       ProcessVoiceInput(user_text, tts_ok)
  \/ \E posted \in PostedTexts : ProcessText(posted)
  \/ \E upload \in Uploads, user_text \in Transcriptions : ProcessAudio(upload, user_text)
  \/ \E is_audio \in BOOLEAN, user_text \in Transcriptions :
       ProcessMessage(is_audio, user_text)

SpecApps == InitApps /\ [][NextApps]_vars

\* the handlers that answer with the template responder
TemplateHandlers ==
  { "process_text_input", "process_voice_input", "process_text", "process_audio" }

\* the last handler ran the pipeline for its text and the response was
\* computed
Answered == result.pc = "done" /\ result.computed

\* C15: when the pipeline with the template responder analyzes a turn and
\* then answers it, and the turn is classified order_status and carries no
\* number and no email, the response is exactly a member of the order_status
\* list: no entity clause and no context clause follows it, whatever the
\* earlier turns were.
C15_OrderStatusVerbatim ==
  ( /\ Answered
    /\ result.handler \in TemplateHandlers
    /\ recognized[1] = "order_status"
    /\ "numbers" \notin DOMAIN extracted[1]
    /\ "emails" \notin DOMAIN extracted[1] )
  => \E i \in DOMAIN RESPONSE_TEMPLATES.order_status :
       result.text_computed = RESPONSE_TEMPLATES.order_status[i]

\* an order_status turn without number or email was answered after a
\* product_info turn of the same conversation
C15_Witness ==
  /\ Answered
  /\ result.handler \in TemplateHandlers
  /\ recognized[1] = "order_status"
  /\ "numbers" \notin DOMAIN extracted[1]
  /\ "emails" \notin DOMAIN extracted[1]
  /\ Len(conversation_history) = 2
  /\ conversation_history[1].intent = "product_info"
  /\ conversation_history[2].intent = "order_status"
  /\ conversation_history[2].response = result.response_text

-----------------------------------------------------------------------------
(* Claims about the result of extract_entities *)

\* C16: for every input text, every category present in the result of
\* extract_entities maps to a non-empty list of matched substrings of the
\* text (a category without a match is absent, never present with an empty
\* list), and the products category is never present.
C16_CategoriesNonEmpty ==
  extracted # NoResult =>
    /\ \A k \in DOMAIN extracted[1] :
         /\ extracted[1][k] # <<>>
         /\ \A i \in DOMAIN extracted[1][k] :
              /\ extracted[1][k][i] # <<>>
              /\ Contains(text, extracted[1][k][i])
    /\ "products" \notin DOMAIN extracted[1]

\* a text with a number and without a date or an email was extracted from
C16_Witness ==
  /\ extracted # NoResult
  /\ DOMAIN extracted[1] = { "numbers" }
  /\ Len(extracted[1].numbers) > 0

-----------------------------------------------------------------------------
(* Claims about the request handlers *)

\* the handler of the step called transcribe_audio_file and got no text:
\* None, or the empty string
NoTextStep ==
  /\ result'.pc = "done"
  /\ result'.transcribed
  /\ result'.user_text \in { NoQuery, <<>> }

\* C17: when the transcription yields no text, the pipeline is not entered:
\* analyze_query and generate_response are not called, the conversation
\* context, the recognizer and the response history (and the table of the
\* knowledge base) are unchanged, and the caller receives a failure result
\* with no response text.
C17_NoTextNoPipeline ==
  [][ NoTextStep =>
        /\ UNCHANGED << intentVars, contextVars, generatorVars >>
        /\ ~result'.computed
        /\ result'.status # "ok"
        /\ result'.response_text = "" ]_vars

\* a recording without speech was refused in a conversation that already has
\* a context and a history
C17_Witness ==
  /\ result.pc = "done"
  /\ result.transcribed
  /\ result.user_text = <<>>
  /\ result.status # "ok"
  /\ Len(conversation_history) > 0
  /\ "last_intent" \in DOMAIN heap[context]

\* C18: a failure of the speech synthesis is a partial success: in every
\* handler, when synthesize_speech fails after the response text was
\* computed, the caller still receives that response text, with the audio
\* absent, and no error.
C18_SynthesisFailureIsPartialSuccess ==
  ( /\ result.pc = "done"
    /\ result.computed
    /\ result.tts_failed )
  => /\ result.status = "ok"
     /\ result.response_text = result.text_computed
     /\ result.audio = "absent"

-----------------------------------------------------------------------------
(* Configuration: config/settings.py, and the components built from it *)

\* the template catalogs a deployment may configure: the one of
\* settings.py, and that one with the entry unknown removed
Catalogs ==
  { RESPONSE_TEMPLATES,
    [ k \in DOMAIN RESPONSE_TEMPLATES \ { "unknown" } |-> RESPONSE_TEMPLATES[k] ] }

\* the keyword configurations a deployment may configure: the one of
\* settings.py, and the empty one
KeywordConfigs == { INTENT_KEYWORDS, [ k \in {} |-> <<>> ] }

\* GOOGLE_APPLICATION_CREDENTIALS: not set, set to a path without a file,
\* set to the path of a file
Credentials == { "unset", "no_file", "file" }

\* Config.validate(): raises ValueError unless the credentials variable is
\* set and names a file; it reads nothing else
validate(credentials) == [ raised |-> credentials # "file" ]

\* self.response_templates.get(intent, self.response_templates['unknown']):
\* the default is evaluated before get is called, so a catalog without
\* unknown raises KeyError for every intent
templates_of(templates, intent) ==
  IF "unknown" \notin DOMAIN templates
    THEN [ raised |-> TRUE, templates |-> <<>> ]
    ELSE [ raised |-> FALSE,
           templates |-> IF intent \in DOMAIN templates
                           THEN templates[intent]
                           ELSE templates.unknown ]

\* recognize_intent(text) of a recognizer whose intent_keywords is the given
\* configuration: the loop over an empty configuration scores nothing
recognize_configured(keywords, t) ==
  IF DOMAIN keywords = {} THEN << "unknown", 0 >> ELSE recognize_intent(t)

\* the intents a request is answered for
RequestIntents == DOMAIN RESPONSE_TEMPLATES \cup { "billing" }

InitConfig ==
  /\ catalog \in Catalogs
  /\ keyword_config \in KeywordConfigs
  /\ startup = "none"
  /\ app = "none"
  /\ result = [ pc |-> "none" ]
  /\ metrics = [ queries |-> <<>>, errors |-> <<>> ]
  /\ tracked = [ pc |-> "none" ]
  /\ NoRecognizer
  /\ NoGenerator
  /\ NoServe
  /\ NoStore
  /\ NoChat
  /\ NoSession
  /\ NoAudio

\* Config.validate() at the start of main.py, app.py and streamlit_app.py
Validate(credentials) ==
  /\ startup = "none"
  /\ startup' = IF validate(credentials).raised THEN "rejected" ELSE "validated"
  /\ UNCHANGED << catalog, keyword_config, appVars, analyticsVars, intentVars,
                  contextVars, generatorVars, serveVars, storeVars, audioVars, chatVars, sessionVars >>

\* IntentRecognizer() and ResponseGenerator(): the constructors store the
\* configuration as it is; demo.py builds them without Config.validate()
Construct ==
  /\ startup \in { "none", "validated" }
  /\ startup' = "constructed"
  /\ UNCHANGED << catalog, keyword_config, appVars, analyticsVars, intentVars,
                  contextVars, generatorVars, serveVars, storeVars, audioVars, chatVars, sessionVars >>

\* a request calls recognize_intent(t)
RecognizeRequest(t) ==
  /\ startup = "constructed"
  /\ text' = t
  /\ recognized' = recognize_configured(keyword_config, t)
  /\ UNCHANGED << extracted, configVars, appVars, analyticsVars,
                  contextVars, generatorVars, serveVars, storeVars, audioVars, chatVars, sessionVars >>

\* a request calls generate_response(intent)
GenerateRequest(intent) ==
  /\ startup = "constructed"
  /\ LET found == templates_of(catalog, intent)
     IN  IF found.raised
           THEN result' = [ pc |-> "done", intent |-> intent, raised |-> TRUE, ret |-> "" ]
           ELSE \E choice \in DOMAIN found.templates :
                  result' = [ pc |-> "done", intent |-> intent, raised |-> FALSE,
                              ret |-> found.templates[choice] ]
  /\ UNCHANGED << app, configVars, analyticsVars, intentVars,
                  contextVars, generatorVars, serveVars, storeVars, audioVars, chatVars, sessionVars >>

NextConfig ==
  \/ \E credentials \in Credentials : Validate(credentials)
  \/ Construct
  \/ \E t \in TurnTexts : RecognizeRequest(t)
  \/ \E intent \in RequestIntents : GenerateRequest(intent)

SpecConfig == InitConfig /\ [][NextConfig]_vars

\* the configuration lacks the entry unknown, or has no keywords
BadConfiguration == "unknown" \notin DOMAIN catalog \/ DOMAIN keyword_config = {}

\* C19: a template catalog without the entry unknown, or an empty keyword
\* configuration, is rejected at startup (by Config.validate or by the
\* construction of the components), so that no request calls recognize_intent
\* or generate_response with it, and none fails because of it.
C19_BadConfigurationRejected ==
  BadConfiguration =>
    /\ startup \notin { "validated", "constructed" }
    /\ recognized = NoResult
    /\ result.pc = "none"

-----------------------------------------------------------------------------
(* AnalyticsTracker and MetricsCollector with a sink that may fail *)

\* the intents and the error types the tracker is called with
TrackedIntents == { "greeting", "unknown" }

TrackedErrors == { "processing_error" }

\* an AnalyticsTracker with or without a database, nothing tracked yet
InitAnalytics ==
  /\ database \in BOOLEAN
  /\ use_ai_model = FALSE
  /\ ai_client = FALSE
  /\ conversation_history = <<>>
  /\ faqs = <<>>
  /\ frame = NoFrame
  /\ metrics = [ queries |-> <<>>, errors |-> <<>> ]
  /\ tracked = [ pc |-> "none" ]
  /\ app = "none"
  /\ result = [ pc |-> "none" ]
  /\ catalog = RESPONSE_TEMPLATES
  /\ keyword_config = INTENT_KEYWORDS
  /\ startup = "none"
  /\ NoRecognizer
  /\ NoServe
  /\ NoStore
  /\ NoChat
  /\ NoSession
  /\ NoAudio

\* what a call of the tracker did: whether the sink failed under it, whether
\* the body of the with block raised, whether the call raised, and whether
\* in_memory_metrics got an entry
Outcome(operation, sink_fails, body_raised, r) ==
  [ pc |-> "done", operation |-> operation,
    sink_failed |-> database /\ sink_fails,
    body_raised |-> body_raised,
    raised |-> r.raised,
    recorded |-> r.metrics # metrics ]

\* tracker.track_query(...)
TrackQuery(intent, success, sink_fails) ==
  /\ Tracked(metrics) < MaxMetrics
  /\ LET r == track_query(metrics, database, intent, success, sink_fails)
     IN  /\ metrics' = r.metrics
         /\ tracked' = Outcome("track_query", sink_fails, FALSE, r)
  /\ UNCHANGED << appVars, configVars, intentVars, contextVars, generatorVars,
                  serveVars, storeVars, audioVars, chatVars, sessionVars >>

\* tracker.track_error(...)
TrackError(error_type, sink_fails) ==
  /\ Tracked(metrics) < MaxMetrics
  /\ LET r == track_error(metrics, database, error_type, sink_fails)
     IN  /\ metrics' = r.metrics
         /\ tracked' = Outcome("track_error", sink_fails, FALSE, r)
  /\ UNCHANGED << appVars, configVars, intentVars, contextVars, generatorVars,
                  serveVars, storeVars, audioVars, chatVars, sessionVars >>

\* with MetricsCollector(tracker, operation_name): body
CollectMetrics(body_raised, sink_fails) ==
  /\ LET r == collector_exit(metrics, database, body_raised, sink_fails)
     IN  /\ metrics' = r.metrics
         /\ tracked' = Outcome("MetricsCollector", sink_fails, body_raised, r)
  /\ UNCHANGED << appVars, configVars, intentVars, contextVars, generatorVars,
                  serveVars, storeVars, audioVars, chatVars, sessionVars >>

NextAnalytics ==
  \/ \E intent \in TrackedIntents, success \in BOOLEAN, sink_fails \in BOOLEAN :
       TrackQuery(intent, success, sink_fails)
  \/ \E error_type \in TrackedErrors, sink_fails \in BOOLEAN :
       TrackError(error_type, sink_fails)
  \/ \E body_raised \in BOOLEAN, sink_fails \in BOOLEAN :
       CollectMetrics(body_raised, sink_fails)

SpecAnalytics == InitAnalytics /\ [][NextAnalytics]_vars

\* C20: a failure of the sink (the database raising in log_metric or
\* log_error) never interrupts the caller: track_query, track_error and the
\* MetricsCollector context manager complete without raising because of the
\* sink, and the in-memory metrics are still recorded.
C20_SinkFailureNeverInterrupts ==
  ( /\ tracked.pc = "done"
    /\ tracked.sink_failed
    /\ ~tracked.body_raised )
  => /\ ~tracked.raised
     /\ tracked.recorded

\* C21: within one conversation the context read for a turn precedes that
\* turn's context write: the context a handler hands to generate_response on
\* turn n has last_intent equal to the intent of turn n-1, and no last_intent
\* on the first turn.
C21_HandedContextIsPreviousTurn ==
  [][ (result'.pc = "done" /\ result'.computed) =>
        IF recognized = NoResult
          THEN "last_intent" \notin DOMAIN result'.context
          ELSE /\ "last_intent" \in DOMAIN result'.context
               /\ result'.context.last_intent = recognized[1] ]_vars

-----------------------------------------------------------------------------
(* Claims about the clauses of the template stage *)

\* the clause _add_context_awareness appends
ContextClause == " Is there anything specific about the product you'd like to know?"

\* the responses of the template stage for the call, before any context
\* clause
WithoutContextClause ==
  { template_response(templates_for(frame.intent)[i], frame.intent, frame.entities,
                      None, <<>>) : i \in DOMAIN templates_for(frame.intent) }

\* C22: whenever the template stage produces the response and the context
\* passed in has last_intent equal to product_info, the clarifying prompt
\* about product details is appended, for every state of the response
\* history, the empty one included; when last_intent is absent or different,
\* the prompt is not appended.
C22_ProductContextAddsPrompt ==
  ( Returned /\ LastStage = "template" /\ ~frame.raised ) =>
    IF /\ IsTruthyDict(frame.context)
       /\ "last_intent" \in DOMAIN frame.context
       /\ frame.context.last_intent = "product_info"
      THEN frame.ret \in { r \o ContextClause : r \in WithoutContextClause }
      ELSE frame.ret \in WithoutContextClause

\* the intents the template stage is called with: the configured ones and
\* one that is not configured
StageIntents == DOMAIN RESPONSE_TEMPLATES \cup { "refund" }

\* the entities the template stage is called with: none, and results of
\* extract_entities
StageEntities ==
  { None,
    EmptyDict,
    [ numbers |-> << <<"2", "3">> >> ],
    [ numbers |-> << <<"7">>, <<"2", "3">> >> ],
    [ emails |-> << <<"a", "@", "b", ".", "c", "o">> >> ],
    [ dates |-> << <<"1", "/", "2", "/", "3", "4">> >>,
      numbers |-> << <<"1">>, <<"2">>, <<"3", "4">> >> ],
    [ dates |-> << <<"1", "-", "2", "-", "3", "4">> >> ],
    [ numbers |-> << <<"7">>, <<"2", "3">> >>,
      emails |-> << <<"x", "@", "y", ".", "z", "z">>, <<"a", "@", "b", ".", "c", "o">> >> ] }

\* a ResponseGenerator with an empty history is called once, without a
\* context
InitTemplate ==
  /\ database = FALSE
  /\ use_ai_model = FALSE
  /\ ai_client = FALSE
  /\ conversation_history = <<>>
  /\ faqs = <<>>
  /\ frame \in { [ pc |-> "template", intent |-> intent, entities |-> entities,
                   context |-> None, user_query |-> NoQuery, ret |-> "",
                   raised |-> FALSE, trace |-> <<>>, match |-> <<>>,
                   kb_failed |-> FALSE, ai |-> "none", before |-> <<>> ] :
                 intent \in StageIntents, entities \in StageEntities }
  /\ NoRecognizer
  /\ NoServe
  /\ NoStore
  /\ NoHost

SpecTemplate == InitTemplate /\ [][TemplateStage]_vars

\* the clause for the first number of the entities, if they have numbers
NumberClause(entities) ==
  IF "numbers" \in DOMAIN entities
    THEN " I see you mentioned order number " \o Join(entities.numbers[1]) \o "."
    ELSE ""

\* the clause for the first email of the entities, if they have emails
EmailClause(entities) ==
  IF "emails" \in DOMAIN entities
    THEN " I'll send updates to " \o Join(entities.emails[1]) \o "."
    ELSE ""

\* C23: in the template stage an entity clause is appended if and only if
\* the intent is order_status or product_info and the entities contain a
\* numbers or emails category; the clause names the first value of that
\* category; for every other intent the template text is returned without
\* any entity clause, whatever the entities are.
C23_EntityClause ==
  Returned =>
    \E i \in DOMAIN templates_for(frame.intent) :
      frame.ret =
        IF frame.intent \in { "order_status", "product_info" }
          THEN templates_for(frame.intent)[i]
                 \o NumberClause(frame.entities) \o EmailClause(frame.entities)
          ELSE templates_for(frame.intent)[i]

\* a product_info call with two numbers and two emails has returned a
\* template followed by the clauses of the first number and the first email
C23_Witness ==
  /\ Returned
  /\ frame.intent = "product_info"
  /\ frame.entities # None
  /\ DOMAIN frame.entities = { "numbers", "emails" }
  /\ Len(frame.entities.numbers) = 2
  /\ frame.ret = RESPONSE_TEMPLATES.product_info[1]
                   \o " I see you mentioned order number 7."
                   \o " I'll send updates to x@y.zz."

-----------------------------------------------------------------------------
(* Claims about ties in recognize_intent *)

\* the scores of the intents of the configuration for the text, in the
\* order of the configuration
Scores == [ i \in DOMAIN IntentOrder |->
              intent_score(INTENT_KEYWORDS[IntentOrder[i]], Lower(text)) ]

\* the positions of the greatest entries of the scores
Greatest(scores) ==
  { i \in DOMAIN scores : \A j \in DOMAIN scores : scores[i] >= scores[j] }

\* C24: when two or more intents share the greatest score, recognize_intent
\* returns the tied intent that is declared first in the keyword
\* configuration, and the same text always yields the same (intent,
\* confidence).
C24_TieGoesToFirstDeclared ==
  recognized # NoResult =>
    \E scores \in { Scores } :
      \E first \in Greatest(scores) :
        /\ \A i \in Greatest(scores) : first <= i
        /\ scores[first] > 0 =>
             /\ recognized[1] = IntentOrder[first]
             /\ recognized[2] = Min2(scores[first], FullConfidence)

\* a text in which order_status and greeting tie, the keyword of
\* order_status coming first in the text, was recognized as greeting
C24_Witness ==
  /\ recognized # NoResult
  /\ Greatest(Scores) = { 1, 3 }
  /\ Scores[1] > 0
  /\ OccursAt(text, <<"o", "r", "d", "e", "r">>, 0)
  /\ recognized[1] = "greeting"

-----------------------------------------------------------------------------
(* Claims about the numbers of extract_entities *)

\* the maximal runs of decimal digits of s from offset p on, left to right
RECURSIVE DigitRuns(_, _)
DigitRuns(s, p) ==
  IF p >= Len(s)
    THEN <<>>
    ELSE IF s[p + 1] \in Digits
      THEN LET e == Max({ k \in (p + 1)..Len(s) : AllIn(s, p + 1, k, Digits) })
           IN  << SubSeq(s, p + 1, e) >> \o DigitRuns(s, e)
      ELSE DigitRuns(s, p + 1)

\* C25: for every text, the numbers category of extract_entities lists, in
\* order of occurrence, every maximal run of decimal digits of the text, a
\* run being bounded on each side by a non-digit character or a string edge
\* (a run next to a letter or an underscore is listed too).
C25_NumbersAreDigitRuns ==
  extracted # NoResult =>
    IF DigitRuns(text, 0) = <<>>
      THEN "numbers" \notin DOMAIN extracted[1]
      ELSE /\ "numbers" \in DOMAIN extracted[1]
           /\ extracted[1].numbers = DigitRuns(text, 0)

-----------------------------------------------------------------------------
(* Claims about the stages that are not attempted *)

\* the call of the frame has no query (None or ''), or its responder has
\* neither a database nor a generative client
NothingToAsk(f) ==
  /\ f.pc # "idle"
  /\ \/ ~IsTruthyText(f.user_query)
     \/ ~database /\ ~ai_client

\* C26: the knowledge-base and generative stages are attempted only when
\* their collaborator is configured and a query is supplied: a call without
\* a query (or with an empty one), or on a responder with no database and no
\* generative client, calls neither the knowledge store nor the generative
\* service, leaves every usage_count unchanged, and returns the response of
\* the template stage.
C26_UnconfiguredStagesNotAttempted ==
  [][ /\ frame'.pc # "idle" =>
           /\ "knowledgebase" \in Range(frame'.trace) =>
                database /\ IsTruthyText(frame'.user_query)
           /\ "generative" \in Range(frame'.trace) =>
                use_ai_model /\ ai_client /\ IsTruthyText(frame'.user_query)
      /\ NothingToAsk(frame') =>
           /\ "knowledgebase" \notin Range(frame'.trace)
           /\ "generative" \notin Range(frame'.trace)
           /\ \A i \in DOMAIN faqs : faqs'[i].usage_count = faqs[i].usage_count
           /\ frame'.pc = "returned" =>
                /\ frame'.trace = << "template" >>
                /\ \E i \in DOMAIN templates_for(frame'.intent) :
                     frame'.ret = template_response(templates_for(frame'.intent)[i],
                                                    frame'.intent, frame'.entities,
                                                    frame'.context, frame'.before) ]_vars

\* a responder with a database and a client has answered a call with an
\* empty query from its templates, after an earlier call was answered from
\* the knowledge base
C26_Witness ==
  /\ Returned
  /\ database
  /\ ai_client
  /\ frame.user_query = <<>>
  /\ frame.trace = << "template" >>
  /\ \E i \in DOMAIN faqs : faqs[i].usage_count > 0

-----------------------------------------------------------------------------
(* Claims about records without a keyword *)

\* the keyword lists of a record with no real keyword: an empty list, and
\* the single empty keyword the form stores for a blank field
BlankKeywords == { <<>>, << <<>> >> }

\* C27: a knowledge record with no real keyword (an empty keyword list, or
\* the single empty-string keyword stored for a blank keywords field)
\* scores 0 against every token list and is never returned by a match.
C27_BlankRecordNeverReturned ==
  matched.pc = "returned" =>
    \A i \in 1..matched.rows :
      faqs[i].keywords \in BlankKeywords =>
        /\ faq_score(matched.keywords, faqs[i].keywords) = 0
        /\ matched.match # <<>> => matched.match[1].id # faqs[i].id

-----------------------------------------------------------------------------
(* app.py: two requests of the Flask service in progress at once *)

\* the requests in progress (app.run serves every request on its own thread)
Requests == { 1, 2 }

\* a bound on the seconds of the wall clock that pass while the requests
\* are served
MaxSecond == 1

\* the texts posted, and spoken in the uploads
RequestTexts == { <<"h", "i">>, <<"t", "r", "a", "c", "k", " ", "o", "r", "d", "e", "r">> }

\* datetime.now().strftime("%Y%m%d_%H%M%S"): the time to the second
strftime(now) == now

\* os.path.join(UPLOAD_FOLDER, f'input_{timestamp}.wav')
input_file(timestamp) == << "input", timestamp >>

\* os.path.join(OUTPUT_FOLDER, f'response_{timestamp}.mp3')
response_file(timestamp) == << "response", timestamp >>

\* the recording of a spoken text, and what the service transcribes from it
recording(spoken) == << "wav" >> \o spoken

transcribe_audio_file(content) == Tail(content)

\* response.audio_content for a text
audio_content(response_text) == << "mp3", response_text >>

\* base64.b64encode(f.read()).decode('utf-8')
b64encode(content) == << "b64" >> \o content

\* open(name, 'wb'): the file exists and is empty
truncate(fs, name) ==
  [ n \in DOMAIN fs \cup { name } |-> IF n = name THEN << >> ELSE fs[n] ]

\* out.write(content) and the close of the file
write(fs, name, content) ==
  [ n \in DOMAIN fs \cup { name } |-> IF n = name THEN content ELSE fs[n] ]

NoStamp == -1

\* a request that passed the checks of its handler: the text posted, or the
\* upload named like an audio file
Received(endpoint, posted) ==
  [ pc |-> IF endpoint = "process_text" THEN "answer" ELSE "stamp",
    endpoint |-> endpoint, posted |-> posted, user_text |-> NoQuery,
    timestamp |-> NoStamp, response_text |-> "", status |-> "none", audio |-> << >> ]

\* the reply of a request
Replied(req, status, audio) ==
  [ req EXCEPT !.pc = "replied", !.status = status, !.audio = audio ]

InitRequests ==
  /\ app = "flask"
  /\ database = FALSE
  /\ use_ai_model = FALSE
  /\ ai_client = FALSE
  /\ conversation_history = <<>>
  /\ faqs = <<>>
  /\ frame = NoFrame
  /\ NoRecognizer
  /\ NoServe
  /\ NoStore
  /\ NoChat
  /\ NoSession
  /\ result = [ pc |-> "none" ]
  /\ metrics = [ queries |-> <<>>, errors |-> <<>> ]
  /\ tracked = [ pc |-> "none" ]
  /\ catalog = RESPONSE_TEMPLATES
  /\ keyword_config = INTENT_KEYWORDS
  /\ startup = "none"
  /\ clock = 0
  /\ files = << >>
  /\ requests \in [ Requests -> { Received(endpoint, posted) :
                                    endpoint \in { "process_text", "process_audio" },
                                    posted \in RequestTexts } ]

\* what a step of a request leaves alone
RequestFrame ==
  UNCHANGED << appVars, analyticsVars, configVars, serveVars, storeVars, chatVars, sessionVars >>

\* a second of the wall clock passes
Tick ==
  /\ clock < MaxSecond
  /\ clock' = clock + 1
  /\ UNCHANGED << files, requests, intentVars, contextVars, generatorVars >>
  /\ RequestFrame

\* timestamp = datetime.now().strftime(...): process_audio takes it on
\* entry and saves the upload under it, process_text takes it after the
\* response is generated
Stamp(p) ==
  /\ requests[p].pc = "stamp"
  /\ LET timestamp == strftime(clock)
     IN  IF requests[p].endpoint = "process_audio"
           THEN /\ files' = write(files, input_file(timestamp), recording(requests[p].posted))
                /\ requests' = [ requests EXCEPT ![p].timestamp = timestamp,
                                                 ![p].pc = "answer" ]
           ELSE /\ files' = files
                /\ requests' = [ requests EXCEPT ![p].timestamp = timestamp,
                                                 ![p].pc = "synthesize" ]
  /\ UNCHANGED << clock, intentVars, contextVars, generatorVars >>
  /\ RequestFrame

\* the text of the request (stripped, or transcribed from the file the
\* upload was saved to), analyze_query and generate_response
Answer(p) ==
  /\ requests[p].pc = "answer"
  /\ LET req == requests[p]
         user_text == IF req.endpoint = "process_audio"
                        THEN transcribe_audio_file(files[input_file(req.timestamp)])
                        ELSE Strip(req.posted)
     IN  \E analysis \in { Analysis(user_text) } :
         \E choice \in Choices(analysis) :
         \E r \in { Respond(analysis, NoQuery, FALSE, [ kind |-> "raise" ], choice) } :
           /\ RunPipeline(user_text, analysis, r)
           /\ requests' =
                [ requests EXCEPT ![p] =
                    IF r.raised
                      THEN Replied([ req EXCEPT !.user_text = user_text ], "error", << >>)
                      ELSE [ req EXCEPT !.user_text = user_text,
                                        !.response_text = r.ret,
                                        !.pc = IF req.endpoint = "process_audio"
                                                 THEN "synthesize" ELSE "stamp" ] ]
  /\ UNCHANGED << clock, files >>
  /\ RequestFrame

\* tts.synthesize_speech(response_text, audio_file): the service answers
\* and the file is opened for writing, or the call fails and returns None
Synthesize(p, tts_ok) ==
  /\ requests[p].pc = "synthesize"
  /\ IF tts_ok
       THEN /\ files' = truncate(files, response_file(requests[p].timestamp))
            /\ requests' = [ requests EXCEPT ![p].pc = "write" ]
       ELSE /\ files' = files
            /\ requests' = [ requests EXCEPT ![p].pc = "read" ]
  /\ UNCHANGED << clock, intentVars, contextVars, generatorVars >>
  /\ RequestFrame

\* out.write(response.audio_content), and the file is closed
WriteAudio(p) ==
  /\ requests[p].pc = "write"
  /\ files' = write(files, response_file(requests[p].timestamp),
                    audio_content(requests[p].response_text))
  /\ requests' = [ requests EXCEPT ![p].pc = "read" ]
  /\ UNCHANGED << clock, intentVars, contextVars, generatorVars >>
  /\ RequestFrame

\* with open(audio_file, 'rb') as f: b64encode(f.read()), and the reply; a
\* missing file raises and the reply is the error with status 500
ReadAudio(p) ==
  /\ requests[p].pc = "read"
  /\ LET name == response_file(requests[p].timestamp)
     IN  requests' = [ requests EXCEPT ![p] =
                         IF name \in DOMAIN files
                           THEN Replied(@, "ok", b64encode(files[name]))
                           ELSE Replied(@, "error", << >>) ]
  /\ UNCHANGED << clock, files, intentVars, contextVars, generatorVars >>
  /\ RequestFrame

NextRequests ==
  \/ Tick
  \/ \E p \in Requests : Stamp(p)
  \/ \E p \in Requests : Answer(p)
  \/ \E p \in Requests, tts_ok \in BOOLEAN : Synthesize(p, tts_ok)
  \/ \E p \in Requests : WriteAudio(p)
  \/ \E p \in Requests : ReadAudio(p)

SpecRequests == InitRequests /\ [][NextRequests]_vars

\* C28: every reply of /api/process-text and /api/process-audio carries the
\* audio synthesized from its own response_text, in every interleaving of
\* two concurrent requests, and also when both take their time stamp in the
\* same second.
C28_ReplyCarriesOwnAudio ==
  \A p \in Requests :
    (requests[p].pc = "replied" /\ requests[p].status = "ok") =>
      requests[p].audio = b64encode(audio_content(requests[p].response_text))

-----------------------------------------------------------------------------
(* streamlit_app.py: the chat page *)

\* a bound on the turns of the chat page that are tracked
MaxTurns == 2

\* the message of the user, and the message of the assistant
UserMessage(user_text) == [ role |-> "user", content |-> user_text ]

AssistantMessage(res) == [ role |-> "assistant", content |-> res.response_text ]

\* initialize_bot() and the session state of a new session
InitChat ==
  /\ app = "streamlit"
  /\ database = TRUE
  /\ use_ai_model \in BOOLEAN
  /\ ai_client = use_ai_model
  /\ conversation_history = <<>>
  /\ faqs = default_faqs
  /\ frame = NoFrame
  /\ NoRecognizer
  /\ NoServe
  /\ NoStore
  /\ NoAudio
  /\ NoChat
  /\ NoSession
  /\ result = [ pc |-> "none" ]
  /\ metrics = [ queries |-> <<>>, errors |-> <<>> ]
  /\ tracked = [ pc |-> "none" ]
  /\ catalog = RESPONSE_TEMPLATES
  /\ keyword_config = INTENT_KEYWORDS
  /\ startup = "none"

\* 'Send' with a typed text: the message of the user is appended, then
\* process_message runs, and the message of the assistant is appended when
\* it returned a result
SendText(user_input) ==
  /\ app = "streamlit"
  /\ Tracked(metrics) < MaxTurns
  /\ process_message(FALSE, user_input)
  /\ messages' = IF result'.status = "ok"
                   THEN messages \o << UserMessage(user_input), AssistantMessage(result') >>
                   ELSE Append(messages, UserMessage(user_input))
  /\ cleared' = FALSE
  /\ UNCHANGED << app, tracked, configVars, serveVars, storeVars, audioVars, sessionVars >>

\* a recording: process_message runs, and both messages are appended when
\* it returned a result
SendVoice(user_text) ==
  /\ app = "streamlit"
  /\ Tracked(metrics) < MaxTurns
  /\ process_message(TRUE, user_text)
  /\ messages' = IF result'.status = "ok"
                   THEN messages \o << UserMessage(user_text), AssistantMessage(result') >>
                   ELSE messages
  /\ cleared' = FALSE
  /\ UNCHANGED << app, tracked, configVars, serveVars, storeVars, audioVars, sessionVars >>

\* the button 'Clear Chat': st.session_state.messages = []
ClearChat ==
  /\ app = "streamlit"
  /\ messages' = << >>
  /\ cleared' = TRUE
  /\ UNCHANGED << appVars, analyticsVars, configVars, audioVars, sessionVars,
                  intentVars, contextVars, generatorVars, serveVars, storeVars >>

NextChat ==
  \/ \E user_input \in TurnTexts : SendText(user_input)
  \/ \E user_text \in Transcriptions : SendVoice(user_text)
  \/ ClearChat

SpecChat == InitChat /\ [][NextChat]_vars

\* the responses generate_response can return for the turn of the result in
\* a conversation without history and without context
FreshResponses(res) ==
  { generate_response(database, use_ai_model, ai_client, << >>, faqs,
                      TurnAnalysis[res.user_text].recognized[1],
                      TurnAnalysis[res.user_text].entities,
                      update_context(EmptyDict,
                                     TurnAnalysis[res.user_text].recognized[1],
                                     TurnAnalysis[res.user_text].entities),
                      res.user_text, db_fails, ai, choice).ret :
      db_fails \in BOOLEAN, ai \in AiOutcomes,
      choice \in DOMAIN templates_for(TurnAnalysis[res.user_text].recognized[1]) }

\* C29: after 'Clear Chat' the next turn is answered as in a fresh
\* conversation: the selector sees an empty history and no context from
\* before the clearing (the turn taken next after the button finds
\* conversation_history and the context of the recognizer empty, and its
\* response is one a new conversation could get for the text).
C29_ClearChatStartsAfresh ==
  [][ (cleared /\ metrics' # metrics /\ result'.computed) =>
        /\ conversation_history = << >>
        /\ heap[context] = EmptyDict
        /\ result'.text_computed \in FreshResponses(result') ]_vars

-----------------------------------------------------------------------------
(* main.py: interactive_session and text_only_session *)

\* the texts spoken or typed in a session
SessionTexts ==
  { <<"h", "i">>,
    <<"t", "r", "a", "c", "k", " ", "o", "r", "d", "e", "r">>,
    <<"b", "y", "e">> }

\* what is typed at the prompt of interactive_session: Enter, or a word
PromptInputs == { << >>, <<"q", "u", "i", "t">>, <<"Q">> }

\* what is typed at the prompt of text_only_session
TypedInputs == SessionTexts \cup { << >>, <<"q", "u", "i", "t">>, <<"E", "x", "i", "t">> }

\* what transcribe_audio_file returns for the recording of a turn
SpokenInputs == SessionTexts \cup { NoQuery, << >> }

\* user_input.lower() in ['quit', 'exit', 'q']
is_quit(user_input) ==
  Lower(user_input) \in { <<"q", "u", "i", "t">>, <<"e", "x", "i", "t">>, <<"q">> }

\* a mutant of ends_conversation that tests for an intent the recognizer
\* never returns
ends_conversation_goodbye(intent) == intent = "goodbye"

\* if result['intent'] == 'farewell' (interactive_session), if
\* analysis['intent'] == 'farewell' (text_only_session)
ends_conversation(intent) == intent = "farewell"

\* VoiceBot() of main(), before a session is chosen
InitSession ==
  /\ app = "cli"
  /\ database = FALSE
  /\ use_ai_model = FALSE
  /\ ai_client = FALSE
  /\ conversation_history = <<>>
  /\ faqs = <<>>
  /\ frame = NoFrame
  /\ NoRecognizer
  /\ NoServe
  /\ NoStore
  /\ NoAudio
  /\ NoChat
  /\ NoSession
  /\ result = [ pc |-> "none" ]
  /\ metrics = [ queries |-> <<>>, errors |-> <<>> ]
  /\ tracked = [ pc |-> "none" ]
  /\ catalog = RESPONSE_TEMPLATES
  /\ keyword_config = INTENT_KEYWORDS
  /\ startup = "none"

\* what a step of the session leaves alone
SessionFrame ==
  UNCHANGED << app, analyticsVars, configVars, serveVars, storeVars, audioVars, chatVars >>

\* bot.interactive_session() or bot.text_only_session() up to the first
\* test of the loop: self.conversation_active = True
StartSession(kind) ==
  /\ app = "cli"
  /\ session.pc = "none"
  /\ session' = [ pc |-> "input", kind |-> kind, active |-> TRUE,
                  last |-> "none", printed |-> "" ]
  /\ UNCHANGED << result, intentVars, contextVars, generatorVars >>
  /\ SessionFrame

\* the session after 'quit', 'exit' or 'q': the goodbye is said and the loop
\* is left with break
Quit(goodbye) ==
  [ session EXCEPT !.pc = "ended", !.last = "quit", !.printed = goodbye ]

\* the session after the handler returned or raised: the response is
\* printed, conversation_active is cleared on a farewell, and the loop tests
\* it; an exception of the handler leaves the session
Handled(res, intent) ==
  IF res.status = "none"
    THEN [ session EXCEPT !.last = "failed" ]
    ELSE IF res.status = "error"
      THEN [ session EXCEPT !.pc = "raised", !.last = "raised" ]
      ELSE [ session EXCEPT !.active = ~ends_conversation(intent),
                            !.pc = IF ends_conversation(intent) THEN "ended" ELSE "input",
                            !.last = "answered",
                            !.printed = res.response_text ]

\* an iteration of the loop of interactive_session: the prompt, the
\* recording, process_voice_input, the response played
InteractiveTurn(user_input, user_text, tts_ok) ==
  /\ app = "cli"
  /\ session.pc = "input"
  /\ session.kind = "interactive"
  /\ session.active
  /\ IF is_quit(user_input)
       THEN /\ NotEntered
            /\ UNCHANGED result
            /\ session' = Quit("Thank you for using our service. Goodbye!")
       ELSE /\ process_voice_input(user_text, tts_ok)
            /\ session' = Handled(result', recognized'[1])
  /\ SessionFrame

\* an iteration of the loop of text_only_session: the prompt,
\* process_text_input, the response printed, and analyze_query once more on
\* the same text (it returns the same intent and writes the same context)
TextTurn(user_input) ==
  /\ app = "cli"
  /\ session.pc = "input"
  /\ session.kind = "text"
  /\ session.active
  /\ IF is_quit(user_input)
       THEN /\ NotEntered
            /\ UNCHANGED result
            /\ session' = Quit("Thank you for chatting. Goodbye!")
       ELSE /\ process_text_input(user_input)
            /\ session' = Handled(result', recognized'[1])
  /\ SessionFrame

NextSession ==
  \/ \E kind \in { "interactive", "text" } : StartSession(kind)
  \/ \E user_input \in PromptInputs, user_text \in SpokenInputs, tts_ok \in BOOLEAN :
       InteractiveTurn(user_input, user_text, tts_ok)
  \/ \E user_input \in TypedInputs : TextTurn(user_input)

SpecSession == InitSession /\ [][NextSession]_vars

\* C30: in interactive_session and text_only_session a turn whose intent is
\* farewell is the last turn: its response is delivered,
\* conversation_active becomes false, and no further input is read or
\* processed; a turn with any other intent, and a turn whose processing
\* failed, leave the session active.
C30_FarewellEndsSession ==
  [][ /\ (session.pc = "input" /\ conversation_history' # conversation_history) =>
           /\ session'.printed = conversation_history'[Len(conversation_history')].response
           /\ IF recognized'[1] = "farewell"
                THEN ~session'.active /\ session'.pc = "ended"
                ELSE session'.active /\ session'.pc = "input"
      /\ (/\ session.pc = "input"
          /\ conversation_history' = conversation_history
          /\ session'.last # "quit") =>
           session'.active /\ session'.pc = "input"
      /\ session.pc = "ended" =>
           UNCHANGED << session, result, intentVars, contextVars, generatorVars >> ]_vars

\* an interactive session has ended on a farewell that followed a turn with
\* another intent
C30_Witness ==
  /\ session.pc = "ended"
  /\ session.kind = "interactive"
  /\ ~session.active
  /\ Len(conversation_history) = 2
  /\ conversation_history[1].intent = "greeting"
  /\ conversation_history[2].intent = "farewell"
  /\ session.printed = conversation_history[2].response

====
